---- MODULE Spec2Model ----
(***************************************************************************)
(* Model of the ai-cr HTTP service (src/src/web/server.ts) together with   *)
(* the Code Analyzer it drives (src/src/core/analyzer.ts).                 *)
(*                                                                         *)
(* The runtime is single threaded: a request handler, a timer callback or  *)
(* the continuation of a background analysis task runs until it reaches an *)
(* await on real I/O.  The variable cpu names the background task whose    *)
(* synchronous code is running (0 = the event loop is idle and may start a *)
(* request handler, the sweep, or the continuation of a finished I/O).     *)
(***************************************************************************)
EXTENDS Integers, Sequences, FiniteSets, TLC

\* ------------------------------------------------------------------ bounds
MaxAnalyses == 1
SvcFiles == 1
RunFiles == 4
MaxTicks == 2
LibFiles == 8
BatchCap == RunFiles + 2

\* --------------------------------------------------------------- constants
OneHour == 60 * 60 * 1000
DefaultMaxFileSize == 100000

\* ------------------------------------------------------- small arithmetic
Min(a, b) == IF a < b THEN a ELSE b
Max(a, b) == IF a > b THEN a ELSE b

\* ------------------------------------------------------------------- files
\* The working tree: file f has a path (a tuple of characters) and a size.
\* Files 1 .. 5 are script sources; 6 and 8 are documents and 7 is a data
\* file (g.md, d/h.json, n/k.md).
ExtOf(f) ==
  IF f \in {6, 8} THEN <<".", "m", "d">>
  ELSE IF f = 7 THEN <<".", "j", "s", "o", "n">>
  ELSE CASE f % 4 = 1 -> <<".", "j", "s">>
         [] f % 4 = 2 -> <<".", "t", "s">>
         [] f % 4 = 3 -> <<".", "j", "s">>
         [] OTHER     -> <<".", "j", "s">>
DirOf(f) ==
  CASE f % 4 = 3 -> <<"d", "/">>
    [] f % 4 = 0 -> <<"n", "/">>
    [] OTHER     -> << >>
\* Files 11 .. 16 are example.js, src/a.ts, README.md, tests/notes.txt,
\* dist/b.py and src/m.rs.
PathOf(f) ==
  CASE f = 11 ->
      <<"e", "x", "a", "m", "p", "l", "e", ".", "j", "s">>
    [] f = 12 ->
      <<"s", "r", "c", "/", "a", ".", "t", "s">>
    [] f = 13 ->
      <<"R", "E", "A", "D", "M", "E", ".", "m", "d">>
    [] f = 14 ->
      <<"t", "e", "s", "t", "s", "/", "n", "o", "t", "e", "s", ".", "t",
        "x", "t">>
    [] f = 15 ->
      <<"d", "i", "s", "t", "/", "b", ".", "p", "y">>
    [] f = 16 ->
      <<"s", "r", "c", "/", "m", ".", "r", "s">>
    [] OTHER ->
      DirOf(f)
        \o <<(<<"a", "b", "c", "e", "f", "g", "h", "k", "m", "p">>)[f]>>
        \o ExtOf(f)
SizeOf(f) ==
  CASE f % 4 = 2 -> 2
    [] f % 4 = 0 -> 1
    [] OTHER     -> 3

\* Array.prototype.slice(start, end) on a 1-based sequence, 0-based indices,
\* negative indices counted from the end.
Slice(s, start, end) ==
  LET SliceIdx(n, x) == IF x < 0 THEN Max(n + x, 0) ELSE Min(x, n)
      a == SliceIdx(Len(s), start)
      b == SliceIdx(Len(s), end)
  IN  IF a < b THEN SubSeq(s, a + 1, b) ELSE << >>

\* The lists the repository status can report: each subset of the working
\* tree, in path order.
RECURSIVE SortedSeq(_)
SortedSeq(S) ==
  IF S = {} THEN << >>
  ELSE LET m == CHOOSE x \in S : \A y \in S : x <= y
       IN  <<m>> \o SortedSeq(S \ {m})
FileLists(n) == { SortedSeq(S) : S \in SUBSET (1 .. n) }

\* ------------------------------------------------------------ glob matching
\* String.prototype.replace(/\*\*/g, '.*')
RECURSIVE ReplaceDoubleStar(_)
ReplaceDoubleStar(p) ==
  IF p = << >> THEN << >>
  ELSE IF Len(p) >= 2 /\ p[1] = "*" /\ p[2] = "*"
       THEN <<".", "*">> \o ReplaceDoubleStar(SubSeq(p, 3, Len(p)))
       ELSE <<p[1]>> \o ReplaceDoubleStar(Tail(p))

\* String.prototype.replace(/\*/g, '[^/]*'); the inserted text is kept as one
\* element, it contains neither '*' nor '?' that a later step could rewrite
\* apart from its own trailing star, which is already part of it.
ReplaceStar(p) == [i \in 1 .. Len(p) |-> IF p[i] = "*" THEN "[^/]*" ELSE p[i]]

\* String.prototype.replace(/\?/g, '.')
ReplaceQuestion(p) == [i \in 1 .. Len(p) |-> IF p[i] = "?" THEN "." ELSE p[i]]

GlobToRegex(pattern) == ReplaceQuestion(ReplaceStar(ReplaceDoubleStar(pattern)))

\* RegExp matching of the token list re from position pos of s: '.' is any
\* character, '[^/]*' any run of non-separators, anything else itself.
RECURSIVE MatchAt(_, _, _)
MatchAt(re, s, pos) ==
  IF re = << >> THEN TRUE
  ELSE IF re[1] = "[^/]*"
       THEN \E n \in 0 .. (Len(s) - pos + 1) :
              /\ \A j \in pos .. (pos + n - 1) : s[j] # "/"
              /\ MatchAt(Tail(re), s, pos + n)
       ELSE /\ pos <= Len(s)
            /\ (re[1] = "." \/ re[1] = s[pos])
            /\ MatchAt(Tail(re), s, pos + 1)

\* RegExp.prototype.test: an unanchored search.
RegexTest(re, s) == \E pos \in 1 .. (Len(s) + 1) : MatchAt(re, s, pos)

matchesPattern(filePath, pattern) == RegexTest(GlobToRegex(pattern), filePath)


\* the members of a list
Range(s) == { s[i] : i \in 1 .. Len(s) }

\* String.prototype.includes
Contains(s, sub) ==
  \E i \in 1 .. (Len(s) - Len(sub) + 1) : SubSeq(s, i, i + Len(sub) - 1) = sub

\* ----------------------------------------------------------- configuration
\* The configurations the Configuration Manager can hold when the service
\* starts: loadConfig reads them from the environment unvalidated.
AiOptions ==
  { [provider |-> "mock",    apiKey |-> "",  baseUrl |-> ""],
    [provider |-> "openai",  apiKey |-> "k", baseUrl |-> "u"],
    [provider |-> "openai",  apiKey |-> "",  baseUrl |-> "u"],
    [provider |-> "claude",  apiKey |-> "",  baseUrl |-> ""] }
BatchSizes == {0, 1, 2}
FileSizeLimits == {2, DefaultMaxFileSize}
IncludePatterns == << <<"*", ".", "j", "s">>, <<"*", ".", "t", "s">> >>
ExcludePatterns == << <<"n", "/", "*", "*">> >>
Configs ==
  { [ai |-> a,
     analysis |-> [maxFileSize |-> s, maxFilesPerAnalysis |-> m,
                   includePatterns |-> IncludePatterns,
                   excludePatterns |-> ExcludePatterns]] :
    a \in AiOptions, s \in FileSizeLimits, m \in BatchSizes }

\* the configurations the service is followed under
ServiceConfigs ==
  { c \in Configs :
      \/ c.ai.provider = "mock" /\ c.analysis.maxFilesPerAnalysis = 1
            /\ c.analysis.maxFileSize = DefaultMaxFileSize
      \/ c.ai.provider = "openai" /\ c.ai.apiKey = "k"
            /\ c.analysis.maxFilesPerAnalysis = 1
            /\ c.analysis.maxFileSize = DefaultMaxFileSize
      \/ c.ai.provider = "openai" /\ c.ai.apiKey = ""
            /\ c.analysis.maxFilesPerAnalysis = 2
            /\ c.analysis.maxFileSize = 2 }

\* the configuration with the mock provider among them
MockConfig ==
  CHOOSE c \in ServiceConfigs : c.ai.provider = "mock"

\* --------------------------------------------------------------- providers
SupportedProviders == {"deepseek", "openai", "moonshot", "mock"}

\* AIProviderFactory.createProvider succeeds
createProviderOk(provider) == provider \in SupportedProviders

\* isAvailable of the provider constructed for this configuration
isAvailable(ai) ==
  IF ai.provider = "mock" THEN TRUE ELSE ai.apiKey # "" /\ ai.baseUrl # ""

ErrUnsupported(provider) == "Unsupported AI provider: " \o provider
ErrUnavailable(provider) == "AI provider " \o provider \o " is not available"
ErrNoValidFiles == "No valid files to analyze (all files exceed size limit)"
ErrNoCommit == "No commit information found"
ErrNoHash == "Commit hash is required for commit analysis"
ErrUnknownType(type) == "Unknown analysis type: " \o type

generateMockIssues(f) ==
  (IF Contains(PathOf(f), <<".", "j", "s">>)
   THEN << [id |-> "js-001", type |-> "style", severity |-> "medium"],
           [id |-> "js-002", type |-> "bug", severity |-> "high"],
           [id |-> "js-003", type |-> "security", severity |-> "critical"] >>
   ELSE << >>)
  \o
  (IF Contains(PathOf(f), <<".", "t", "s">>)
   THEN << [id |-> "ts-001", type |-> "style", severity |-> "medium"],
           [id |-> "ts-002", type |-> "bug", severity |-> "high"],
           [id |-> "ts-003", type |-> "style", severity |-> "low"] >>
   ELSE << >>)

generateMockSuggestions(f) ==
  (IF Contains(PathOf(f), <<".", "j", "s">>)
   THEN << [id |-> "js-sug-001", priority |-> "high"],
           [id |-> "js-sug-002", priority |-> "medium"] >>
   ELSE << >>)
  \o
  (IF Contains(PathOf(f), <<".", "t", "s">>)
   THEN << [id |-> "ts-sug-001", priority |-> "high"],
           [id |-> "ts-sug-002", priority |-> "medium"] >>
   ELSE << >>)

\* A CodeAnalysisResult as the analyzer reads it: the path, the issues, the
\* suggestions value and whether that value is an array (the providers' own
\* results always carry arrays), and the per-file qualityScore.
MockAnalyzeCode(files) ==
  [i \in 1 .. Len(files) |->
     [filePath |-> files[i],
      issues |-> generateMockIssues(files[i]),
      suggestions |-> generateMockSuggestions(files[i]),
      suggestionsIsArray |-> TRUE,
      qualityScore |-> 75]]

\* one fallback result per file
createFallbackResults(files) ==
  [i \in 1 .. Len(files) |->
     [filePath |-> files[i],
      issues |-> << >>,
      suggestions |-> << [id |-> "suggestion", priority |-> "medium"] >>,
      suggestionsIsArray |-> TRUE,
      qualityScore |-> 75]]

\* results.map(...) over the decoded `results` of the backend: the path the
\* backend names, else that of the file at the same index, else 'unknown'
\* (0); issues and suggestions are passed on as they came; the per-file
\* score is the backend's, 80 when it gave none.
formatResults(results, files) ==
  [i \in 1 .. Len(results) |->
     [filePath |-> IF results[i].filePath # 0 THEN results[i].filePath
                   ELSE IF i <= Len(files) THEN files[i] ELSE 0,
      issues |-> results[i].issues,
      suggestions |-> results[i].suggestions,
      suggestionsIsArray |-> results[i].suggestionsIsArray,
      qualityScore |-> IF results[i].qualityScore # 0
                       THEN results[i].qualityScore ELSE 80]]

\* What a backend's decoded result for one file can look like: an issue
\* with labels of the enumerations, an issue with other labels (a string
\* the provider's own counters lower-case or skip, openai.ts:110-130), and
\* a `suggestions` member that is a number.  No path, no score.  The
\* decoded `results` lists followed for a batch have one such result per
\* file.
BackendResults(files) ==
  LET BackendResultShapes ==
      { [filePath |-> 0, qualityScore |-> 0, suggestionsIsArray |-> TRUE,
         suggestions |-> << >>,
         issues |-> << [id |-> "i1", type |-> "bug", severity |-> "high"] >>],
        [filePath |-> 0, qualityScore |-> 0, suggestionsIsArray |-> TRUE,
         suggestions |-> << >>,
         issues |-> << [id |-> "i2", type |-> "typo", severity |-> "High"] >>],
        [filePath |-> 0, qualityScore |-> 0, suggestionsIsArray |-> FALSE,
         suggestions |-> << >>,
         issues |-> << [id |-> "i1", type |-> "bug", severity |-> "high"] >>] }
  IN  { [i \in 1 .. Len(files) |-> shape] : shape \in BackendResultShapes }

\* The outcomes of aiProvider.analyzeCode(files): "throw" or <<results>>.
\* An HTTP backend's content is undecodable (one fallback result per file)
\* or decodes into a result list.
ProviderOutcomes(ai, files) ==
  IF ai.provider = "mock"
  THEN { <<MockAnalyzeCode(files)>> }
  ELSE { << >>, <<createFallbackResults(files)>> }
       \cup { <<formatResults(results, files)>> :
                results \in BackendResults(files) }

\* ---------------------------------------------------- HTTP-backed providers
\* OpenAIProvider (openai.ts) and DeepSeekProvider (mock.ts:169-296) have the
\* same code up to the provider's name in the messages.
ProviderLabel(provider) == IF provider = "openai" THEN "OpenAI" ELSE "DeepSeek"
ErrNoContent(provider) ==
  "No response content from " \o ProviderLabel(provider) \o " API"
ErrRequestFailed(provider, message) ==
  ProviderLabel(provider) \o " API request failed: " \o message

\* the messages of the errors makeRequest rejects with, and of the TypeError
\* of reading `choices` of a null body
ErrTransport == "Request failed with status code 500"
ErrNullBody == "Cannot read properties of null (reading 'choices')"

\* What JSON.parse gives for the matched text: a SyntaxError (parses FALSE)
\* or an object whose `results` member is absent, a string ("notList"), or a
\* list whose elements are null ("null"), carry a number as `issues`
\* ("issuesNotList"), or are objects with lists ("ok", the list is value).
Decoded(parses, results, elements, value) ==
  [parses |-> parses, results |-> results, elements |-> elements,
   value |-> value]

\* The values of choices[0].message.content followed: the empty string, a
\* list of content parts (not a string), and texts with what they decode to.
Contents(files) ==
  { [isString |-> TRUE, text |-> << >>,
     json |-> Decoded(FALSE, "absent", "ok", << >>)],
    [isString |-> FALSE, text |-> << >>,
     json |-> Decoded(FALSE, "absent", "ok", << >>)],
    [isString |-> TRUE, text |-> <<"o", "k">>,
     json |-> Decoded(FALSE, "absent", "ok", << >>)],
    [isString |-> TRUE, text |-> <<"}", "o", "{">>,
     json |-> Decoded(FALSE, "absent", "ok", << >>)],
    [isString |-> TRUE, text |-> <<"{", "x", "}">>,
     json |-> Decoded(FALSE, "absent", "ok", << >>)],
    [isString |-> TRUE, text |-> <<"{", "}">>,
     json |-> Decoded(TRUE, "absent", "ok", << >>)],
    [isString |-> TRUE, text |-> <<"{", "r", ":", "s", "}">>,
     json |-> Decoded(TRUE, "notList", "ok", << >>)],
    [isString |-> TRUE, text |-> <<"{", "r", ":", "[", "n", "]", "}">>,
     json |-> Decoded(TRUE, "list", "null", << >>)],
    [isString |-> TRUE, text |-> <<"{", "r", ":", "[", "5", "]", "}">>,
     json |-> Decoded(TRUE, "list", "issuesNotList", << >>)] }
  \cup
  { [isString |-> TRUE, text |-> <<"o", "k", "{", "r", "}", "o", "k">>,
     json |-> Decoded(TRUE, "list", "ok", results)] :
    results \in BackendResults(files) }

\* What makeRequest gives: a rejection, or response.data: null, an object
\* without choices, or one with choices[0].message.content
Responses(files) ==
  { [transport |-> "error", body |-> "null", content |-> c] :
      c \in { x \in Contents(files) : x.text = << >> /\ x.isString } }
  \cup { [transport |-> "ok", body |-> b, content |-> c] :
           b \in {"null", "noChoices"},
           c \in { x \in Contents(files) : x.text = << >> /\ x.isString } }
  \cup { [transport |-> "ok", body |-> "content", content |-> c] :
           c \in Contents(files) }

\* content.match(/\{[\s\S]*\}/) is not null
JsonMatch(text) ==
  \E i \in 1 .. Len(text) : \E j \in (i + 1) .. Len(text) :
     text[i] = "{" /\ text[j] = "}"

\* parseResponse(content, files): [threw, results]
parseResponseNoCatch(content, files) ==
  IF ~content.isString
  THEN [threw |-> TRUE, results |-> << >>]
  ELSE IF ~JsonMatch(content.text)
  THEN [threw |-> FALSE, results |-> createFallbackResults(files)]
  ELSE IF ~content.json.parses
  THEN [threw |-> TRUE, results |-> << >>]
  ELSE IF content.json.results = "absent"
  THEN [threw |-> FALSE, results |-> formatResults(<< >>, files)]
  ELSE IF content.json.results = "notList"
  THEN [threw |-> TRUE, results |-> << >>]
  ELSE IF content.json.elements # "ok"
  THEN [threw |-> TRUE, results |-> << >>]
  ELSE [threw |-> FALSE,
        results |-> formatResults(content.json.value, files)]
parseResponse(content, files) ==
  IF ~content.isString
  THEN \* content.match is not a function, caught
       [threw |-> FALSE, results |-> createFallbackResults(files)]
  ELSE IF ~JsonMatch(content.text)
  THEN [threw |-> FALSE, results |-> createFallbackResults(files)]
  ELSE IF ~content.json.parses
  THEN \* JSON.parse throws, caught
       [threw |-> FALSE, results |-> createFallbackResults(files)]
  ELSE IF content.json.results = "absent"
  THEN \* parsed.results || []
       [threw |-> FALSE, results |-> formatResults(<< >>, files)]
  ELSE IF content.json.results = "notList"
  THEN \* results.map is not a function, caught
       [threw |-> FALSE, results |-> createFallbackResults(files)]
  ELSE IF content.json.elements # "ok"
  THEN \* result.filePath of null, issues.forEach of a number, caught
       [threw |-> FALSE, results |-> createFallbackResults(files)]
  ELSE [threw |-> FALSE,
        results |-> formatResults(content.json.value, files)]

\* analyzeCode(files, config) of an HTTP-backed provider, given what
\* makeRequest gives: [threw, error, results]
HttpAnalyzeCode(provider, response, files) ==
  LET failed(message) ==
        [threw |-> TRUE, error |-> ErrRequestFailed(provider, message),
         results |-> << >>]
  IN  IF response.transport = "error" THEN failed(ErrTransport)
      ELSE IF response.body = "null" THEN failed(ErrNullBody)
      ELSE IF \/ response.body = "noChoices"
              \/ response.content.isString /\ response.content.text = << >>
      THEN \* !content
           failed(ErrNoContent(provider))
      ELSE LET parsed == parseResponse(response.content, files)
           IN  IF parsed.threw
               THEN failed("parseResponse")
               ELSE [threw |-> FALSE, error |-> "",
                     results |-> parsed.results]

\* ---------------------------------------------------------------- analyzer
filterFilesIncludeOnly(cfg, files) ==
  LET matchesInclude(f) ==
        \E i \in 1 .. Len(cfg.analysis.includePatterns) :
           matchesPattern(PathOf(f), cfg.analysis.includePatterns[i])
  IN  SelectSeq(files, matchesInclude)
filterFiles(cfg, files) ==
  LET matchesInclude(f) ==
        \E i \in 1 .. Len(cfg.analysis.includePatterns) :
           matchesPattern(PathOf(f), cfg.analysis.includePatterns[i])
      matchesExclude(f) ==
        \E i \in 1 .. Len(cfg.analysis.excludePatterns) :
           matchesPattern(PathOf(f), cfg.analysis.excludePatterns[i])
      keep(f) == matchesInclude(f) /\ ~matchesExclude(f)
  IN  SelectSeq(files, keep)

validateFileSizesStrict(cfg, files) ==
  LET ok(f) == SizeOf(f) < cfg.analysis.maxFileSize
  IN  SelectSeq(files, ok)
validateFileSizes(cfg, files) ==
  LET ok(f) == SizeOf(f) <= cfg.analysis.maxFileSize
  IN  SelectSeq(files, ok)

\* Math.round(x / d) for d > 0: rounds half up
RoundDiv(x, d) == (2 * x + d) \div (2 * d)

\* Not-a-Number: what `undefined + 1` and arithmetic on it give.  Counts,
\* totals and scores are never negative, so -1 stands for it.
NaN == -1

\* a + b
Plus(a, b) == IF a = NaN \/ b = NaN THEN NaN ELSE a + b

\* Math.min, Math.round and Math.max all return NaN for a NaN argument
\* (without the test of line 201, 0 / 0 is NaN)
calculateQualityScoreNoGuard(issues, suggestions, files) ==
  IF files = 0 \/ issues = NaN \/ suggestions = NaN THEN NaN
  ELSE LET num == 100 * files - Min(issues * 10, 50 * files)
                              + Min(suggestions * 2, 10 * files)
       IN  Max(0, Min(100, RoundDiv(num, files)))
calculateQualityScore(issues, suggestions, files) ==
  IF files = 0 THEN 100
  ELSE IF issues = NaN \/ suggestions = NaN THEN NaN
  ELSE LET num == 100 * files - Min(issues * 10, 50 * files)
                              + Min(suggestions * 2, 10 * files)
       IN  Max(0, Min(100, RoundDiv(num, files)))

\* result.issues.length, result.suggestions.length: undefined for a value
\* that is no array, which the sum turns into NaN
LengthOf(result, field) ==
  IF field = "suggestions" /\ ~result.suggestionsIsArray THEN NaN
  ELSE Len(result[field])

RECURSIVE SumOver(_, _)
SumOver(results, field) ==
  IF results = << >> THEN 0
  ELSE Plus(LengthOf(results[1], field), SumOver(Tail(results), field))

Severities == {"critical", "high", "medium", "low", "info"}
Categories == {"bug", "security", "performance", "style", "maintainability",
               "accessibility", "best-practice"}

\* the object literals { critical: 0, ... } and { bug: 0, ... }
ZeroCounts(keys) == [k \in keys |-> 0]

\* counts[key]++ : a key the object does not have is created holding NaN
Increment(counts, key) ==
  [k \in DOMAIN counts \cup {key} |->
     IF k # key THEN counts[k]
     ELSE IF key \in DOMAIN counts THEN Plus(counts[key], 1) ELSE NaN]

\* the issues of all results, in the order the two nested loops visit them
RECURSIVE AllIssues(_)
AllIssues(results) ==
  IF results = << >> THEN << >>
  ELSE results[1].issues \o AllIssues(Tail(results))

\* the inner loop of generateSummary over the member `field` of the issues
RECURSIVE CountBy(_, _, _)
CountBy(counts, issues, field) ==
  IF issues = << >> THEN counts
  ELSE CountBy(Increment(counts, issues[1][field]), Tail(issues), field)

generateSummary(results) ==
  LET totalFiles == Len(results)
      totalIssues == SumOver(results, "issues")
      totalSuggestions == SumOver(results, "suggestions")
  IN  [totalFiles |-> totalFiles,
       totalIssues |-> totalIssues,
       totalSuggestions |-> totalSuggestions,
       severityCounts |->
         CountBy(ZeroCounts(Severities), AllIssues(results), "severity"),
       categoryCounts |->
         CountBy(ZeroCounts(Categories), AllIssues(results), "type"),
       qualityScore |->
         calculateQualityScore(totalIssues, totalSuggestions, totalFiles)]

createEmptyResponseSparse(cfg) ==
  [results |-> << >>,
   summary |-> [totalFiles |-> 0, totalIssues |-> 0, totalSuggestions |-> 0,
                severityCounts |-> [k \in {"critical", "high"} |-> 0],
                categoryCounts |-> [k \in {"bug"} |-> 0],
                qualityScore |-> 100],
   provider |-> cfg.ai.provider]
createEmptyResponse(cfg) ==
  [results |-> << >>,
   summary |-> [totalFiles |-> 0, totalIssues |-> 0, totalSuggestions |-> 0,
                severityCounts |->
                  [k \in {"critical", "high", "medium", "low", "info"} |-> 0],
                categoryCounts |->
                  [k \in {"bug", "security", "performance", "style",
                          "maintainability", "accessibility",
                          "best-practice"} |-> 0],
                qualityScore |-> 100],
   provider |-> cfg.ai.provider]

MakeResponse(cfg, allResults) ==
  [results |-> allResults,
   summary |-> generateSummary(allResults),
   provider |-> cfg.ai.provider]


\* ---------------------------------------------------------- status records
\* An AnalysisStatus object.  Optional fields: results is << >> or
\* <<response>>, error is "" when absent, endTime is -1 when absent.
NoStatus ==
  [status |-> "none", progress |-> 0, startTime |-> 0,
   results |-> << >>, error |-> "", endTime |-> -1]

NewStatus(t) ==
  [status |-> "pending", progress |-> 0, startTime |-> t,
   results |-> << >>, error |-> "", endTime |-> -1]

MarkProcessingKeepsStatus(st) == [st EXCEPT !.progress = 10]
MarkProcessing(st) == [st EXCEPT !.status = "processing", !.progress = 10]

SetProgress(st, p) == [st EXCEPT !.progress = p]

MarkCompletedKeepsProgress(st, response, t) ==
  [st EXCEPT !.status = "completed", !.results = <<response>>, !.endTime = t]
MarkCompleted(st, response, t) ==
  [st EXCEPT !.status = "completed", !.results = <<response>>,
             !.progress = 100, !.endTime = t]

MarkFailedNoEndTime(st, message, t) ==
  [st EXCEPT !.status = "failed", !.error = message]
MarkFailed(st, message, t) ==
  [st EXCEPT !.status = "failed", !.error = message, !.endTime = t]

\* The sweep's test on one record
ExpiredInclusive(st, t) == t - st.startTime >= OneHour
Expired(st, t) == t - st.startTime > OneHour

\* ------------------------------------------------------------------- state
VARIABLES
  cfg,           \* the Configuration Manager's snapshot
  now,           \* Date.now()
  nextId,        \* number of analysis ids issued so far
  inMap,         \* the keys of analysisStatuses
  rec,           \* the AnalysisStatus object created for each id
  cpu,           \* task whose synchronous code is running, 0 = event loop
  pc,            \* position of each background task
  task,          \* locals of each background task and of its analyzer run
  lastResponse,  \* the envelope returned by the step just taken, if any
  hooks,         \* .git/hooks and the uninstallAllHooks call in progress
  cm,            \* the Configuration Manager's objects and its caller's
  lib            \* the last direct call of an exported function, its return

svcVars == <<cfg, now, nextId, inMap, rec, cpu, pc, task, lastResponse>>
libVars == <<hooks, cm, lib>>
vars == <<cfg, now, nextId, inMap, rec, cpu, pc, task, lastResponse,
          hooks, cm, lib>>

Ids == 1 .. MaxAnalyses

NoBody == [type |-> "<no body>", commitHash |-> ""]
Bodies ==
  { [type |-> "staged", commitHash |-> ""],
    [type |-> "working", commitHash |-> ""],
    [type |-> "commit", commitHash |-> ""],
    [type |-> "commit", commitHash |-> "abc"],
    [type |-> "bogus", commitHash |-> ""],
    NoBody }

\* the requests the service is followed under: one per branch of the switch
\* in performAnalysis ('working' and a 'commit' with a hash then go the way
\* of 'staged' through the service)
SvcBodies == { b \in Bodies : b.type # "working" /\ b.commitHash = "" }

NoTask ==
  [type |-> "", commitHash |-> "",
   input |-> << >>, valid |-> << >>, batches |-> << >>, i |-> 0, k |-> 0,
   allResults |-> << >>, inflight |-> {}, dispatched |-> << >>,
   calls |-> << >>, settled |-> << >>, response |-> << >>]

NoResponse ==
  [route |-> "none", id |-> 0, success |-> FALSE, error |-> "", data |-> << >>]

Envelope(route, id, success, error, data) ==
  [route |-> route, id |-> id, success |-> success, error |-> error,
   data |-> data]

\* the components outside the service, before any use
NoHooks == [dir |-> << >>, require |-> FALSE, returned |-> "none"]
NoManager == [held |-> << >>, seen |-> << >>, same |-> FALSE,
              call |-> [op |-> "none"]]
NoCall == [op |-> "none"]

Init ==
  /\ cfg \in ServiceConfigs
  /\ now = 0
  /\ nextId = 0
  /\ inMap = {}
  /\ rec = [t \in Ids |-> NoStatus]
  /\ cpu = 0
  /\ pc = [t \in Ids |-> "idle"]
  /\ task = [t \in Ids |-> NoTask]
  /\ lastResponse = NoResponse
  /\ hooks = NoHooks /\ cm = NoManager /\ lib = NoCall


\* ------------------------------------------------- analyzer, step by step
\* files.slice(i, i + maxFiles) in createBatches
createBatchesSliceShort(files, i, maxFiles) == Slice(files, i, maxFiles)
createBatchesSlice(files, i, maxFiles) == Slice(files, i, i + maxFiles)

\* `await this.analyzeBatch(batch)`: the run is suspended with batch k in
\* flight and gives the event loop back.
AfterCallNoAwait(t, k) == [pc |-> "loop", k |-> k + 1, cpu |-> t]
AfterCall(t, k) == [pc |-> "awaitProvider", k |-> k, cpu |-> 0]

\* the catch block of the batch loop: log, go on with the next batch
AfterBatchFailureBreak(tk) == Len(tk.batches) + 1
AfterBatchFailure(tk) == tk.k + 1

\* log entry: the analyzeBatch call for batch j ended with out, << >> when
\* it threw and <<results>> when it returned
Settled(j, out) == [j |-> j, out |-> out]

\* the guards of the result and report routes
ResultReadyLoose(st) == st.status # "pending"
ResultReady(st) == st.status = "completed"
ReportReady(st) == st.results # << >>

ErrNotFound == "Analysis not found"
ErrNotCompleted == "Analysis not completed"
ErrNotFoundOrNotCompleted == "Analysis not found or not completed"
ErrReport == "report generation failed"
ErrBody == "Cannot destructure property 'type' of 'request.body'"

\* the catch block of performAnalysis, which ends the task
Fail(t, message) ==
  /\ rec' = [rec EXCEPT ![t] = MarkFailed(@, message, now)]
  /\ inMap' = inMap \cup {t}
  /\ pc' = [pc EXCEPT ![t] = "done"]
  /\ cpu' = 0

\* --------------------------------------------------------- request handlers
\* `performAnalysis(analysisId, type, commitHash)` in the POST handler: an
\* async function's body runs inside the call up to its first await, so the
\* task of the new id holds the thread (not the event loop, 0)
performAnalysisCallDeferred(id) == 0
performAnalysisCall(id) == id

\* POST /api/analyze up to the call of performAnalysis.  The .catch callback
\* the handler attaches never runs: performAnalysis catches every error of
\* its own body, so its promise is never rejected.
PostAnalyze(body) ==
  /\ UNCHANGED libVars
  /\ cpu = 0
  /\ IF body = NoBody
     THEN /\ lastResponse' = Envelope("post", 0, FALSE, ErrBody, << >>)
          /\ UNCHANGED <<cfg, now, nextId, inMap, rec, cpu, pc, task>>
     ELSE /\ nextId + 1 \in DOMAIN rec
          /\ LET id == nextId + 1 IN
               /\ nextId' = id
               /\ rec' = [rec EXCEPT ![id] = NewStatus(now)]
               /\ inMap' = inMap \cup {id}
               /\ task' = [task EXCEPT ![id] =
                             [NoTask EXCEPT !.type = body.type,
                                            !.commitHash = body.commitHash]]
               /\ pc' = [pc EXCEPT ![id] = "start"]
               /\ cpu' = performAnalysisCall(id)
          /\ lastResponse' = NoResponse
  /\ UNCHANGED <<cfg, now>>

\* performAnalysis: look the record up, mark it processing
PA_Begin(t) ==
  /\ UNCHANGED libVars
  /\ cpu = t /\ pc[t] = "start"
  /\ IF t \in inMap
     THEN /\ rec' = [rec EXCEPT ![t] = MarkProcessing(@)]
          /\ pc' = [pc EXCEPT ![t] = "config"]
          /\ UNCHANGED cpu
     ELSE /\ pc' = [pc EXCEPT ![t] = "done"]
          /\ cpu' = 0
          /\ UNCHANGED rec
  /\ lastResponse' = NoResponse
  /\ UNCHANGED <<cfg, now, nextId, inMap, task>>

\* performAnalysis: configuration read, analyzer constructed, progress 30
PA_Config(t) ==
  /\ UNCHANGED libVars
  /\ cpu = t /\ pc[t] = "config"
  /\ rec' = [rec EXCEPT ![t] = SetProgress(@, 30)]
  /\ inMap' = inMap \cup {t}
  /\ pc' = [pc EXCEPT ![t] = "switch"]
  /\ lastResponse' = NoResponse
  /\ UNCHANGED <<cfg, now, nextId, cpu, task>>

\* performAnalysis: the switch on type; the POST handler then returns its id
PA_Switch(t) ==
  /\ UNCHANGED libVars
  /\ cpu = t /\ pc[t] = "switch"
  /\ lastResponse' = Envelope("post", t, TRUE, "", << >>)
  /\ CASE task[t].type \in {"staged", "working"} ->
            /\ pc' = [pc EXCEPT ![t] = "awaitGit"]
            /\ cpu' = 0
            /\ UNCHANGED <<rec, inMap>>
       [] task[t].type = "commit" /\ task[t].commitHash = "" ->
            Fail(t, ErrNoHash)
       [] task[t].type = "commit" /\ task[t].commitHash # "" ->
            /\ pc' = [pc EXCEPT ![t] = "awaitGit"]
            /\ cpu' = 0
            /\ UNCHANGED <<rec, inMap>>
       [] OTHER -> Fail(t, ErrUnknownType(task[t].type))
  /\ UNCHANGED <<cfg, now, nextId, task>>

\* the version-control query settles: getStagedChanges / getWorkingChanges
\* give a list (empty on failure), getLastCommit a commit or null
GitReturn(t, files, found) ==
  /\ UNCHANGED libVars
  /\ cpu = 0 /\ pc[t] = "awaitGit"
  /\ IF task[t].type = "commit" /\ ~found
     THEN /\ Fail(t, ErrNoCommit)
          /\ UNCHANGED task
     ELSE /\ task' = [task EXCEPT ![t].input = files]
          /\ pc' = [pc EXCEPT ![t] = "filter"]
          /\ cpu' = t
          /\ UNCHANGED <<rec, inMap>>
  /\ lastResponse' = NoResponse
  /\ UNCHANGED <<cfg, now, nextId>>

\* analyzeFiles: filterFiles, validateFileSizes
AF_Filter(t) ==
  /\ UNCHANGED libVars
  /\ cpu = t /\ pc[t] = "filter"
  /\ LET filteredFiles == filterFiles(cfg, task[t].input)
         validFiles == validateFileSizes(cfg, filteredFiles)
     IN  IF filteredFiles = << >>
         THEN /\ task' = [task EXCEPT ![t].response = <<createEmptyResponse(cfg)>>]
              /\ pc' = [pc EXCEPT ![t] = "p90"]
              /\ UNCHANGED <<rec, inMap, cpu>>
         ELSE IF validFiles = << >>
         THEN /\ Fail(t, ErrNoValidFiles)
              /\ UNCHANGED task
         ELSE /\ task' = [task EXCEPT ![t].valid = validFiles, ![t].i = 0,
                                      ![t].batches = << >>]
              /\ pc' = [pc EXCEPT ![t] = "batching"]
              /\ UNCHANGED <<rec, inMap, cpu>>
  /\ lastResponse' = NoResponse
  /\ UNCHANGED <<cfg, now, nextId>>

\* createBatches: one iteration of the for loop.  With maxFilesPerAnalysis
\* <= 0 the index never reaches files.length and the loop pushes slices
\* until the heap is exhausted; BatchCap is the number of batches the heap
\* holds (more than any terminating loop over the working tree produces),
\* after which the process can take no further step.
AF_BatchStep(t) ==
  /\ UNCHANGED libVars
  /\ cpu = t /\ pc[t] = "batching"
  /\ task[t].i < Len(task[t].valid)
  /\ Len(task[t].batches) < BatchCap
  /\ task' = [task EXCEPT
       ![t].batches = Append(@, createBatchesSlice(task[t].valid, task[t].i,
                                   cfg.analysis.maxFilesPerAnalysis)),
       ![t].i = @ + cfg.analysis.maxFilesPerAnalysis]
  /\ lastResponse' = NoResponse
  /\ UNCHANGED <<cfg, now, nextId, inMap, rec, cpu, pc>>

\* createBatches: the loop condition fails, the batches are returned
AF_BatchDone(t) ==
  /\ UNCHANGED libVars
  /\ cpu = t /\ pc[t] = "batching"
  /\ ~(task[t].i < Len(task[t].valid))
  /\ task' = [task EXCEPT ![t].k = 1]
  /\ pc' = [pc EXCEPT ![t] = "loop"]
  /\ lastResponse' = NoResponse
  /\ UNCHANGED <<cfg, now, nextId, inMap, rec, cpu>>

\* the batch loop calls analyzeBatch for batch k
AF_Dispatch(t) ==
  /\ UNCHANGED libVars
  /\ cpu = t /\ pc[t] = "loop"
  /\ task[t].k <= Len(task[t].batches)
  /\ LET batch == task[t].batches[task[t].k]
         after == AfterCall(t, task[t].k)
     IN  IF createProviderOk(cfg.ai.provider) /\ isAvailable(cfg.ai)
         THEN /\ task' = [task EXCEPT ![t].dispatched = Append(@, batch),
                                      ![t].calls = Append(@, batch),
                                      ![t].inflight = @ \cup {task[t].k},
                                      ![t].k = after.k]
              /\ pc' = [pc EXCEPT ![t] = after.pc]
              /\ cpu' = after.cpu
         ELSE /\ task' = [task EXCEPT ![t].dispatched = Append(@, batch),
                                      ![t].settled = Append(@, Settled(task[t].k, << >>)),
                                      ![t].k = AfterBatchFailure(task[t])]
              /\ UNCHANGED <<pc, cpu>>
  /\ lastResponse' = NoResponse
  /\ UNCHANGED <<cfg, now, nextId, inMap, rec>>

\* the provider call for batch j settles: results or a thrown error
ProviderReturn(t, j, out) ==
  /\ UNCHANGED libVars
  /\ cpu = 0
  /\ j \in task[t].inflight
  /\ out \in ProviderOutcomes(cfg.ai, task[t].batches[j])
  /\ LET resumes == pc[t] = "awaitProvider"
         kept == IF out = << >> THEN task[t].allResults
                 ELSE task[t].allResults \o out[1]
         k2 == IF ~resumes THEN task[t].k
               ELSE IF out = << >> THEN AfterBatchFailure(task[t])
               ELSE task[t].k + 1
     IN  /\ task' = [task EXCEPT ![t].inflight = @ \ {j},
                                 ![t].settled = Append(@, Settled(j, out)),
                                 ![t].allResults = kept,
                                 ![t].k = k2]
         /\ pc' = IF resumes THEN [pc EXCEPT ![t] = "loop"] ELSE pc
         /\ cpu' = IF resumes THEN t ELSE 0
  /\ lastResponse' = NoResponse
  /\ UNCHANGED <<cfg, now, nextId, inMap, rec>>

\* analyzeFiles: after the last batch, generateSummary and return
AF_Finish(t) ==
  /\ UNCHANGED libVars
  /\ cpu = t /\ pc[t] = "loop"
  /\ task[t].k > Len(task[t].batches)
  /\ task' = [task EXCEPT ![t].response = <<MakeResponse(cfg, task[t].allResults)>>]
  /\ pc' = [pc EXCEPT ![t] = "p90"]
  /\ lastResponse' = NoResponse
  /\ UNCHANGED <<cfg, now, nextId, inMap, rec, cpu>>

\* performAnalysis: results obtained, progress 90 (PA_P90Latest: as if
\* `status` were one variable shared by all calls, holding the record
\* created last)
PA_P90Latest(t) ==
  /\ UNCHANGED libVars
  /\ cpu = t /\ pc[t] = "p90"
  /\ rec' = [rec EXCEPT ![nextId] = SetProgress(@, 90)]
  /\ inMap' = inMap \cup {nextId}
  /\ pc' = [pc EXCEPT ![t] = "complete"]
  /\ lastResponse' = NoResponse
  /\ UNCHANGED <<cfg, now, nextId, cpu, task>>
PA_P90(t) ==
  /\ UNCHANGED libVars
  /\ cpu = t /\ pc[t] = "p90"
  /\ rec' = [rec EXCEPT ![t] = SetProgress(@, 90)]
  /\ inMap' = inMap \cup {t}
  /\ pc' = [pc EXCEPT ![t] = "complete"]
  /\ lastResponse' = NoResponse
  /\ UNCHANGED <<cfg, now, nextId, cpu, task>>

\* performAnalysis: completed, results attached, end time recorded
PA_Complete(t) ==
  /\ UNCHANGED libVars
  /\ cpu = t /\ pc[t] = "complete"
  /\ rec' = [rec EXCEPT ![t] = MarkCompleted(@, task[t].response[1], now)]
  /\ inMap' = inMap \cup {t}
  /\ pc' = [pc EXCEPT ![t] = "done"]
  /\ cpu' = 0
  /\ lastResponse' = NoResponse
  /\ UNCHANGED <<cfg, now, nextId, task>>

\* GET /api/analyze/:id/result
GetResult(id) ==
  /\ UNCHANGED libVars
  /\ cpu = 0
  /\ lastResponse' =
       IF id \notin inMap
       THEN Envelope("result", id, FALSE, ErrNotFound, << >>)
       ELSE IF ~ResultReady(rec[id])
       THEN Envelope("result", id, FALSE, ErrNotCompleted, << >>)
       ELSE Envelope("result", id, TRUE, "", rec[id].results)
  /\ UNCHANGED <<cfg, now, nextId, inMap, rec, cpu, pc, task>>

\* GET /api/analyze/:id/report; generateReport writes a file and may throw
GetReport(id, written) ==
  /\ UNCHANGED libVars
  /\ cpu = 0
  /\ lastResponse' =
       IF id \notin inMap \/ ~ReportReady(rec[id])
       THEN Envelope("report", id, FALSE, ErrNotFoundOrNotCompleted, << >>)
       ELSE IF written
       THEN Envelope("report", id, TRUE, "", rec[id].results)
       ELSE Envelope("report", id, FALSE, ErrReport, << >>)
  /\ UNCHANGED <<cfg, now, nextId, inMap, rec, cpu, pc, task>>

\* the setInterval callback: delete every record started over an hour ago
Sweep ==
  /\ UNCHANGED libVars
  /\ cpu = 0
  /\ inMap' = { id \in inMap : ~Expired(rec[id], now) }
  /\ lastResponse' = NoResponse
  /\ UNCHANGED <<cfg, now, nextId, rec, cpu, pc, task>>

\* the clock advances, an hour at a time, while the event loop is idle
Tick ==
  /\ UNCHANGED libVars
  /\ cpu = 0
  /\ now < MaxTicks * OneHour
  /\ now' = now + OneHour
  /\ lastResponse' = NoResponse
  /\ UNCHANGED <<cfg, nextId, inMap, rec, cpu, pc, task>>

\* ---------------------------------------------------------- specifications
\* a result that follows the CodeAnalysisResult type
WellTyped(result) ==
  /\ result.suggestionsIsArray
  /\ \A i \in 1 .. Len(result.issues) :
       /\ result.issues[i].severity \in Severities
       /\ result.issues[i].type \in Categories

\* the provider outcomes the service is followed under: a failure, or
\* results that follow the result type
SvcOutcomes(ai, files) ==
  { out \in ProviderOutcomes(ai, files) :
      out = << >> \/ \A i \in 1 .. Len(out[1]) : WellTyped(out[1][i]) }

\* The service: request handlers, the sweep, the clock and the background
\* tasks, over the working tree 1 .. SvcFiles.
Next ==
  \/ \E body \in SvcBodies : PostAnalyze(body)
  \/ \E t \in Ids : PA_Begin(t)
  \/ \E t \in Ids : PA_Config(t)
  \/ \E t \in Ids : PA_Switch(t)
  \/ \E t \in Ids, files \in FileLists(SvcFiles), found \in BOOLEAN :
       GitReturn(t, files, found)
  \/ \E t \in Ids : AF_Filter(t)
  \/ \E t \in Ids : AF_BatchStep(t)
  \/ \E t \in Ids : AF_BatchDone(t)
  \/ \E t \in Ids : AF_Dispatch(t)
  \/ \E t \in Ids : \E j \in task[t].inflight :
       \E out \in SvcOutcomes(cfg.ai, task[t].batches[j]) :
         ProviderReturn(t, j, out)
  \/ \E t \in Ids : AF_Finish(t)
  \/ \E t \in Ids : PA_P90(t)
  \/ \E t \in Ids : PA_Complete(t)
  \/ \E id \in Ids : GetResult(id)
  \/ \E id \in Ids, written \in BOOLEAN : GetReport(id, written)
  \/ Sweep
  \/ Tick

Spec == Init /\ [][Next]_vars

\* One analysis started through POST /api/analyze and followed to its end,
\* over the working tree 1 .. RunFiles and every configuration.
RunInit ==
  /\ cfg \in Configs
  /\ now = 0
  /\ nextId = 0
  /\ inMap = {}
  /\ rec = [t \in Ids |-> NoStatus]
  /\ cpu = 0
  /\ pc = [t \in Ids |-> "idle"]
  /\ task = [t \in Ids |-> NoTask]
  /\ lastResponse = NoResponse
  /\ hooks = NoHooks /\ cm = NoManager /\ lib = NoCall

RunNext ==
  \/ \E body \in Bodies : nextId = 0 /\ PostAnalyze(body)
  \/ PA_Begin(1)
  \/ PA_Config(1)
  \/ PA_Switch(1)
  \/ \E files \in FileLists(RunFiles), found \in BOOLEAN :
       GitReturn(1, files, found)
  \/ AF_Filter(1)
  \/ AF_BatchStep(1)
  \/ AF_BatchDone(1)
  \/ AF_Dispatch(1)
  \/ \E j \in task[1].inflight :
       \E out \in ProviderOutcomes(cfg.ai, task[1].batches[j]) :
         ProviderReturn(1, j, out)
  \/ AF_Finish(1)
  \/ PA_P90(1)
  \/ PA_Complete(1)

RunSpec == RunInit /\ [][RunNext]_vars

\* The external calls settle and synchronous code keeps running.
RunFairness ==
  /\ WF_vars(PA_Begin(1)) /\ WF_vars(PA_Config(1)) /\ WF_vars(PA_Switch(1))
  /\ WF_vars(\E files \in FileLists(RunFiles), found \in BOOLEAN :
               GitReturn(1, files, found))
  /\ WF_vars(AF_Filter(1)) /\ WF_vars(AF_BatchStep(1))
  /\ WF_vars(AF_BatchDone(1)) /\ WF_vars(AF_Dispatch(1))
  /\ WF_vars(\E j \in task[1].inflight :
               \E out \in ProviderOutcomes(cfg.ai, task[1].batches[j]) :
                 ProviderReturn(1, j, out))
  /\ WF_vars(AF_Finish(1)) /\ WF_vars(PA_P90(1)) /\ WF_vars(PA_Complete(1))

FairRunSpec == RunInit /\ [][RunNext]_vars /\ RunFairness


\* Several analyses in flight: one more id than the service is followed
\* with, under the mock configuration, the clock standing still.
PairIds == 1 .. (MaxAnalyses + 1)

PairInit ==
  /\ cfg = MockConfig
  /\ now = 0
  /\ nextId = 0
  /\ inMap = {}
  /\ rec = [t \in PairIds |-> NoStatus]
  /\ cpu = 0
  /\ pc = [t \in PairIds |-> "idle"]
  /\ task = [t \in PairIds |-> NoTask]
  /\ lastResponse = NoResponse
  /\ hooks = NoHooks /\ cm = NoManager /\ lib = NoCall

PairNext ==
  \/ \E body \in SvcBodies : PostAnalyze(body)
  \/ \E t \in PairIds : PA_Begin(t)
  \/ \E t \in PairIds : PA_Config(t)
  \/ \E t \in PairIds : PA_Switch(t)
  \/ \E t \in PairIds, files \in FileLists(SvcFiles), found \in BOOLEAN :
       GitReturn(t, files, found)
  \/ \E t \in PairIds : AF_Filter(t)
  \/ \E t \in PairIds : AF_BatchStep(t)
  \/ \E t \in PairIds : AF_BatchDone(t)
  \/ \E t \in PairIds : AF_Dispatch(t)
  \/ \E t \in PairIds : \E j \in task[t].inflight :
       \E out \in SvcOutcomes(cfg.ai, task[t].batches[j]) :
         ProviderReturn(t, j, out)
  \/ \E t \in PairIds : AF_Finish(t)
  \/ \E t \in PairIds : PA_P90(t)
  \/ \E t \in PairIds : PA_Complete(t)

PairSpec == PairInit /\ [][PairNext]_vars

\* ------------------------------------------------ the exported components
\* The package exports the analyzer, the providers, the Configuration
\* Manager and the hook integration (src/src/index.ts); the specifications
\* below follow direct calls of them, with the HTTP service not started.
ServiceOff ==
  /\ cfg = MockConfig
  /\ now = 0
  /\ nextId = 0
  /\ inMap = {}
  /\ rec = [t \in Ids |-> NoStatus]
  /\ cpu = 0
  /\ pc = [t \in Ids |-> "idle"]
  /\ task = [t \in Ids |-> NoTask]
  /\ lastResponse = NoResponse

\* the file lists a caller passes: each subset of the working tree, in path
\* order or in the opposite order
LibLists ==
  LET Reverse(s) == [i \in 1 .. Len(s) |-> s[Len(s) + 1 - i]]
  IN  FileLists(LibFiles) \cup { Reverse(l) : l \in FileLists(LibFiles) }

\* the calls of filterFiles followed: its arguments (a file list and the
\* pattern lists a configuration carries), nothing returned yet
FilterCalls ==
  { [op |-> "filterFiles", returned |-> FALSE, files |-> files,
     include |-> include, exclude |-> exclude, kept |-> << >>] :
    files \in LibLists,
    include \in { IncludePatterns, << <<"*", ".", "t", "s">> >>, << >> },
    exclude \in { ExcludePatterns, << >>, << <<"*", ".", "j", "s">> >> } }

\* new CodeAnalyzer(config).filterFiles(files), as analyzeFiles calls it
FilterFilesReturn ==
  /\ lib.op = "filterFiles" /\ ~lib.returned
  /\ lib' = [lib EXCEPT
               !.returned = TRUE,
               !.kept = filterFiles([analysis |->
                                       [includePatterns |-> lib.include,
                                        excludePatterns |-> lib.exclude]],
                                    lib.files)]
  /\ UNCHANGED <<svcVars, hooks, cm>>

\* the calls of MockProvider.analyzeCode followed
MockCalls ==
  { [op |-> "mockAnalyzeCode", returned |-> FALSE, files |-> files,
     results |-> << >>] :
    files \in LibLists }

\* new MockProvider(config).analyzeCode(files, config), after its timer
MockAnalyzeCodeReturn ==
  /\ lib.op = "mockAnalyzeCode" /\ ~lib.returned
  /\ lib' = [lib EXCEPT !.returned = TRUE,
                        !.results = MockAnalyzeCode(lib.files)]
  /\ UNCHANGED <<svcVars, hooks, cm>>

\* the calls of an HTTP-backed provider's analyzeCode followed, each with
\* what its request will give
HttpCalls ==
  UNION { { [op |-> "httpAnalyzeCode", returned |-> FALSE,
               provider |-> provider, files |-> files,
               response |-> response,
               out |-> [threw |-> FALSE, error |-> "", results |-> << >>]] :
             provider \in {"openai", "deepseek"}, response \in Responses(files) } :
          files \in FileLists(LibFiles) }

\* provider.analyzeCode(files, config) settles
HttpAnalyzeCodeReturn ==
  /\ lib.op = "httpAnalyzeCode" /\ ~lib.returned
  /\ lib' = [lib EXCEPT
               !.returned = TRUE,
               !.out = HttpAnalyzeCode(lib.provider, lib.response,
                                       lib.files)]
  /\ UNCHANGED <<svcVars, hooks, cm>>

\* getFileChange(filePath, status): null (<< >>) for a file that is not on
\* disk unless the status is 'deleted', else the change with the content
\* read from disk ('' and size 0 without a file)
getFileChange(filePath, status, disk) ==
  IF filePath \notin disk /\ status # "deleted" THEN << >>
  ELSE << [filePath |-> filePath, status |-> status,
           hasContent |-> filePath \in disk,
           size |-> IF filePath \in disk THEN SizeOf(filePath) ELSE 0] >>

\* getStagedChanges(): git.status() fails (statusOk FALSE) or reports the
\* staged paths; the loop pushes every change that is not null
getStagedChanges(statusOk, staged, disk) ==
  LET RECURSIVE changes(_)
      changes(stagedFiles) ==
        IF stagedFiles = << >> THEN << >>
        ELSE getFileChange(Head(stagedFiles), "modified", disk)
             \o changes(Tail(stagedFiles))
  IN  IF statusOk THEN changes(staged) ELSE << >>

\* the calls of getStagedChanges followed: what git.status() gives and the
\* files of the working tree 1 .. RunFiles that are on disk
StagedCalls ==
  { [op |-> "getStagedChanges", returned |-> FALSE, statusOk |-> ok,
     staged |-> staged, disk |-> disk, changes |-> << >>] :
    ok \in BOOLEAN, staged \in FileLists(RunFiles),
    disk \in SUBSET (1 .. RunFiles) }

\* new GitIntegration().getStagedChanges() settles
GetStagedChangesReturn ==
  /\ lib.op = "getStagedChanges" /\ ~lib.returned
  /\ lib' = [lib EXCEPT
               !.returned = TRUE,
               !.changes = getStagedChanges(lib.statusOk, lib.staged,
                                            lib.disk)]
  /\ UNCHANGED <<svcVars, hooks, cm>>

\* the calls of matchesPattern followed: paths of depth 0 to 3 and globs
\* with each wildcard, alone and combined
MatchCalls ==
  { [op |-> "matchesPattern", returned |-> FALSE, filePath |-> filePath,
     pattern |-> pattern, result |-> FALSE] :
    filePath \in { <<"a", ".", "t", "s">>,
                   <<"a", "b", ".", "t", "s">>,
                   <<"s", "/", "b", ".", "t", "s">>,
                   <<"s", "/", "a", "/", "b", ".", "t", "s">>,
                   <<"s", "/", "a", "/", "d", "/", "b", ".", "t", "s">>,
                   <<"s", "/", "b", ".", "m", "d">> },
    pattern \in { <<"*", ".", "t", "s">>,
                  <<"s", "*", "b">>,
                  <<"s", "/", "*", "/", "b">>,
                  <<"a", "?", ".", "t", "s">>,
                  <<"s", "/", "?", "/", "b">>,
                  <<"/", "?", "?", ".">>,
                  <<"*", "*">>,
                  <<"s", "*", "*", "b">>,
                  <<"s", "/", "*", "*", "/", "b", ".", "t", "s">>,
                  <<"*", "*", "/", "*", ".", "t", "s">>,
                  <<"s", "/", "*", "*", "/", "?", ".", "m", "d">> } }

\* new CodeAnalyzer(config).matchesPattern(filePath, pattern), as filterFiles
\* calls it
MatchesPatternReturn ==
  /\ lib.op = "matchesPattern" /\ ~lib.returned
  /\ lib' = [lib EXCEPT !.returned = TRUE,
                        !.result = matchesPattern(lib.filePath, lib.pattern)]
  /\ UNCHANGED <<svcVars, hooks, cm>>

\* ------------------------------------------------- loading the configuration
\* patterns.split(',').map(p => p.trim()).filter(p => p.length > 0)
parsePatterns(patterns) ==
  LET RECURSIVE Split(_)
      Split(s) ==
        IF \A i \in 1 .. Len(s) : s[i] # ","
        THEN <<s>>
        ELSE LET i == CHOOSE k \in 1 .. Len(s) :
                        s[k] = "," /\ \A j \in 1 .. (k - 1) : s[j] # ","
             IN  <<SubSeq(s, 1, i - 1)>> \o Split(SubSeq(s, i + 1, Len(s)))
      RECURSIVE Trim(_)
      Trim(s) ==
        IF s # << >> /\ s[1] = " " THEN Trim(Tail(s))
        ELSE IF s # << >> /\ s[Len(s)] = " "
             THEN Trim(SubSeq(s, 1, Len(s) - 1))
             ELSE s
      parts == Split(patterns)
      trimmed == [i \in 1 .. Len(parts) |-> Trim(parts[i])]
  IN  SelectSeq(trimmed, LAMBDA p : Len(p) > 0)

\* parseInt(text) with no radix, for texts without a sign or a 0x prefix:
\* the leading white space is skipped and the longest run of decimal digits
\* is read; NaN when there is none.
parseInt(text) ==
  LET DigitOf(c) ==
        CHOOSE d \in 0 .. 9 :
          (<<"0", "1", "2", "3", "4", "5", "6", "7", "8", "9">>)[d + 1] = c
      IsDigit(c) == c \in {"0", "1", "2", "3", "4", "5", "6", "7", "8", "9"}
      RECURSIVE Skip(_)
      Skip(s) == IF s # << >> /\ s[1] = " " THEN Skip(Tail(s)) ELSE s
      RECURSIVE Read(_, _)
      Read(s, acc) ==
        IF s # << >> /\ IsDigit(s[1])
        THEN Read(Tail(s), 10 * acc + DigitOf(s[1]))
        ELSE acc
      t == Skip(text)
  IN  IF t # << >> /\ IsDigit(t[1]) THEN Read(t, 0) ELSE NaN

\* parseFloat(text) for texts without a sign or an exponent, in tenths: the
\* digits before the point and the first digit after it (the texts followed
\* have no more); NaN when the text starts with neither a digit nor a point
\* followed by a digit.
parseFloat(text) ==
  LET IsDigit(c) == c \in {"0", "1", "2", "3", "4", "5", "6", "7", "8", "9"}
      RECURSIVE Skip(_)
      Skip(s) == IF s # << >> /\ s[1] = " " THEN Skip(Tail(s)) ELSE s
      RECURSIVE Rest(_)
      Rest(s) == IF s # << >> /\ IsDigit(s[1]) THEN Rest(Tail(s)) ELSE s
      t == Skip(text)
      r == Rest(t)
      whole == IF r = t THEN 0 ELSE 10 * parseInt(t)
      hasTenth == Len(r) >= 2 /\ r[1] = "." /\ IsDigit(r[2])
  IN  IF r = t /\ ~hasTenth THEN NaN
      ELSE whole + (IF hasTenth THEN parseInt(<<r[2]>>) ELSE 0)

\* loadConfig: the members read with parseInt, parseFloat and parsePatterns.
\* env gives process.env; a variable that is not set, or is set to the empty
\* text, is << >> (both take the || branch).  No configuration file is
\* merged: fileConfig stays {}.  temperature is in tenths.
loadConfig(env) ==
  LET Or(name, default) == IF env[name] = << >> THEN default ELSE env[name]
  IN  [ai |->
         [temperature |-> parseFloat(Or("AI_TEMPERATURE", <<"0", ".", "1">>)),
          maxTokens |-> parseInt(Or("AI_MAX_TOKENS", <<"4", "0", "0", "0">>)),
          timeout |->
            parseInt(Or("AI_TIMEOUT", <<"3", "0", "0", "0", "0">>))],
       analysis |->
         [maxFileSize |->
            parseInt(Or("MAX_FILE_SIZE", <<"1", "0", "0", "0", "0", "0">>)),
          maxFilesPerAnalysis |->
            parseInt(Or("MAX_FILES_PER_ANALYSIS", <<"5", "0">>)),
          timeout |-> parseInt(Or("ANALYSIS_TIMEOUT", <<"3", "0", "0">>)),
          includePatterns |->
            parsePatterns(Or("INCLUDE_PATTERNS",
              <<"*", "*", "/", "*", ".", "{", "j", "s", ",", "t", "s", ",",
                "j", "s", "x", ",", "t", "s", "x", ",", "p", "y", ",", "j",
                "a", "v", "a", ",", "g", "o", ",", "r", "s", "}">>)),
          excludePatterns |->
            parsePatterns(Or("EXCLUDE_PATTERNS",
              <<"n", "o", "d", "e", "_", "m", "o", "d", "u", "l", "e", "s",
                "/", "*", "*", ",", "d", "i", "s", "t", "/", "*", "*", ",",
                "b", "u", "i", "l", "d", "/", "*", "*">>))],
       web |-> [port |-> parseInt(Or("WEB_PORT", <<"8", "0", "0", "0">>))]]

\* The environments followed.  Either the numeric variables are unset and
\* the pattern variables are unset or set, with a list of example files to
\* filter; or the pattern variables are unset and each numeric variable is
\* unset, a text that is no number, or the text of a number with a fraction.
LoadCalls ==
  LET Numeric == {"AI_TEMPERATURE", "AI_MAX_TOKENS", "AI_TIMEOUT",
                  "MAX_FILE_SIZE", "MAX_FILES_PER_ANALYSIS",
                  "ANALYSIS_TIMEOUT", "WEB_PORT"}
      Patterns == {"INCLUDE_PATTERNS", "EXCLUDE_PATTERNS"}
      Call(env, files) ==
        [op |-> "loadConfig", returned |-> FALSE, env |-> env,
         files |-> files, config |-> << >>, kept |-> << >>]
  IN  { Call([n \in Numeric \cup Patterns |->
                CASE n = "INCLUDE_PATTERNS" -> i
                  [] n = "EXCLUDE_PATTERNS" -> e
                  [] OTHER -> << >>], SortedSeq(S)) :
        i \in { << >>,
                 <<"*", ".", "t", "s", ",", " ", "*", ".", "m", "d", ",">> },
        e \in { << >>, <<"s", "r", "c", "/", "*", "*">> },
        S \in SUBSET (11 .. 16) }
      \cup
      { Call([n \in Numeric \cup Patterns |->
                IF n \in Numeric THEN v[n] ELSE << >>], << >>) :
        v \in [Numeric -> { << >>, <<"a", "b", "c">>, <<"7", ".", "5">> }] }

\* ConfigManager's constructor loads the configuration; a CodeAnalyzer made
\* from it filters the files it is given
LoadConfigReturn ==
  /\ lib.op = "loadConfig" /\ ~lib.returned
  /\ LET config == loadConfig(lib.env)
     IN  lib' = [lib EXCEPT !.returned = TRUE,
                            !.config = config,
                            !.kept = filterFiles(config, lib.files)]
  /\ UNCHANGED <<svcVars, hooks, cm>>

LibInit ==
  /\ ServiceOff
  /\ hooks = NoHooks /\ cm = NoManager
  /\ lib \in FilterCalls \cup MockCalls \cup HttpCalls \cup StagedCalls
             \cup MatchCalls \cup LoadCalls

LibNext ==
  \/ FilterFilesReturn
  \/ MockAnalyzeCodeReturn
  \/ HttpAnalyzeCodeReturn
  \/ GetStagedChangesReturn
  \/ MatchesPatternReturn
  \/ LoadConfigReturn

LibSpec == LibInit /\ [][LibNext]_vars

\* ------------------------------------------------------------ git hooks
\* The three hook files uninstallAllHooks looks at, in its order, and one
\* other file of .git/hooks.
HookNames == <<"pre-commit", "commit-msg", "post-commit">>
OtherHook == "pre-push"

\* File contents, as texts.  The scripts the tool installs begin with a
\* comment that carries the marker; the others are hooks of other tools.
Marker ==
  <<"A", "I", " ", "C", "o", "d", "e", " ", "R", "e", "v", "i", "e", "w">>
InstalledText ==
  <<"#", " ", "A", "I", " ", "C", "o", "d", "e", " ", "R", "e", "v", "i",
  "e", "w", " ", "-", " ", "H", "o", "o", "k">>
LintText ==
  <<"n", "p", "x", " ", "l", "i", "n", "t", "-", "s", "t", "a", "g", "e",
  "d">>

\* An entry of the directory: nothing, a regular file, or a directory (for
\* which existsSync is true and readFileSync throws).
Missing == [kind |-> "missing", content |-> << >>]
File(text) == [kind |-> "file", content |-> text]
Directory == [kind |-> "dir", content |-> << >>]
Entries ==
  { Missing, Directory, File(InstalledText), File(LintText),
    File(<<"#", " ", "a", "i", " ", "c", "o", "d", "e", " ", "r", "e", "v",
           "i", "e", "w">>),
    File(<<"#", " ", "a", "f", "t", "e", "r", " ", "A", "I", " ", "C", "o",
           "d", "e", " ", "R", "e", "v", "i", "e", "w">>) }

\* the hooks directories followed
HookDirs ==
  { [p \in Range(HookNames) \cup {OtherHook} |->
       IF p = OtherHook THEN o ELSE h[p]] :
    h \in [Range(HookNames) -> Entries],
    o \in {Missing, File(InstalledText), File(LintText)} }

\* The body of the try block from the hook at index i on: the directory it
\* leaves and whether an error reached the catch block.  `require` is a
\* free name of the module: it is defined in a CommonJS build and not in an
\* ES module, where evaluating it throws.
RECURSIVE UninstallFrom(_, _, _)
UninstallFrom(dir, i, requireDefined) ==
  IF i > Len(HookNames) THEN [dir |-> dir, threw |-> FALSE]
  ELSE LET entry == dir[HookNames[i]] IN
       IF entry.kind = "missing"
       THEN UninstallFrom(dir, i + 1, requireDefined)
       ELSE IF ~requireDefined \/ entry.kind = "dir"
       THEN [dir |-> dir, threw |-> TRUE]
       ELSE IF Contains(entry.content, Marker)
       THEN UninstallFrom([dir EXCEPT ![HookNames[i]] = Missing],
                          i + 1, requireDefined)
       ELSE UninstallFrom(dir, i + 1, requireDefined)

\* uninstallAllHooks: no await inside, it runs to its return in one step
UninstallAllHooks ==
  /\ hooks.returned = "none" /\ hooks.dir # << >>
  /\ LET out == UninstallFrom(hooks.dir, 1, hooks.require)
     IN  hooks' = [hooks EXCEPT
                    !.dir = out.dir,
                    !.returned = IF out.threw THEN "false" ELSE "true"]
  /\ UNCHANGED <<svcVars, cm, lib>>

HooksInit ==
  /\ ServiceOff
  /\ cm = NoManager /\ lib = NoCall
  /\ hooks \in [dir : HookDirs, require : BOOLEAN, returned : {"none"}]

HooksNext ==
  \/ UninstallAllHooks

HooksSpec == HooksInit /\ [][HooksNext]_vars

\* installPreCommitHook, installCommitMsgHook and installPostCommitHook, for
\* the hook named p: writeFileSync creates the file or replaces the content
\* of the file that is there, and throws for a directory; the catch block
\* turns the error into false.  No await inside.
InstallHook(p) ==
  /\ hooks.returned = "none" /\ hooks.dir # << >>
  /\ hooks' = IF hooks.dir[p].kind = "dir"
              THEN [hooks EXCEPT !.returned = "false"]
              ELSE [hooks EXCEPT !.dir[p] = File(InstalledText),
                                 !.returned = "true"]
  /\ UNCHANGED <<svcVars, cm, lib>>

\* installAllHooks: the three calls inside Promise.all run one after the
\* other, each to its return; the result is true when all three are
InstallAllHooks ==
  /\ hooks.returned = "none" /\ hooks.dir # << >>
  /\ hooks' = [hooks EXCEPT
                 !.dir = [p \in DOMAIN hooks.dir |->
                            IF p \in Range(HookNames)
                                 /\ hooks.dir[p].kind # "dir"
                            THEN File(InstalledText)
                            ELSE hooks.dir[p]],
                 !.returned =
                   IF \A p \in Range(HookNames) : hooks.dir[p].kind # "dir"
                   THEN "true" ELSE "false"]
  /\ UNCHANGED <<svcVars, cm, lib>>

\* checkHooksStatus: reads each hook that exists; there is no try block, so
\* an error (require not defined, or a directory at the path) rejects the
\* promise.  Nothing is written.
CheckHooksStatus ==
  /\ hooks.returned = "none" /\ hooks.dir # << >>
  /\ LET throws ==
           \E p \in Range(HookNames) :
              /\ hooks.dir[p].kind # "missing"
              /\ (~hooks.require \/ hooks.dir[p].kind = "dir")
     IN  hooks' = [hooks EXCEPT
                    !.returned = IF throws THEN "rejected" ELSE "status",
                    !.status =
                      IF throws THEN << >>
                      ELSE [p \in Range(HookNames) |->
                              /\ hooks.dir[p].kind = "file"
                              /\ Contains(hooks.dir[p].content, Marker)]]
  /\ UNCHANGED <<svcVars, cm, lib>>

\* the command is over; the next one starts with a new GitHooksIntegration
NextCommand ==
  /\ hooks.returned # "none" /\ hooks.dir # << >>
  /\ hooks' = [hooks EXCEPT !.returned = "none", !.status = << >>]
  /\ UNCHANGED <<svcVars, cm, lib>>

\* Sequences of hook commands over one hooks directory; `first` keeps the
\* directory as it was before the first command.
HookCommandsInit ==
  /\ ServiceOff
  /\ cm = NoManager /\ lib = NoCall
  /\ \E dir \in HookDirs, require \in BOOLEAN :
       hooks = [dir |-> dir, require |-> require, returned |-> "none",
                status |-> << >>, first |-> dir]

HookCommandsNext ==
  \/ \E p \in Range(HookNames) : InstallHook(p)
  \/ InstallAllHooks
  \/ UninstallAllHooks
  \/ CheckHooksStatus
  \/ NextCommand

HookCommandsSpec == HookCommandsInit /\ [][HookCommandsNext]_vars

\* ------------------------------------------------- Configuration Manager
\* In ConfigSpec cfg is this.config, the object the manager holds, and cm is
\* what a caller has: the object a getConfig call returned (held is its
\* content now, seen its content when it was returned, same whether it still
\* is the object the manager holds) and the last call with its return.
Sections == {"ai", "analysis", "output", "web"}

\* ai sections as loadConfig builds them (getAPIKey is empty without the
\* provider's environment variable, getBaseUrl has a default for every
\* provider but mock); an update can also give an empty base URL or omit
\* apiKey and baseUrl
FullAiSections ==
  { [provider |-> "mock",     apiKey |-> "",  baseUrl |-> "",  model |-> ""],
    [provider |-> "openai",   apiKey |-> "k", baseUrl |-> "u",
     model |-> "gpt-4"],
    [provider |-> "deepseek", apiKey |-> "",  baseUrl |-> "u",
     model |-> "deepseek-coder"] }

\* analysis sections: the limits parseInt can give, and one that omits
\* maxFilesPerAnalysis
FullAnalysisSections ==
  { [maxFileSize |-> 2, maxFilesPerAnalysis |-> 1],
    [maxFileSize |-> 0, maxFilesPerAnalysis |-> 1],
    [maxFileSize |-> 2, maxFilesPerAnalysis |-> 0] }

SectionValues(s) ==
  CASE s = "ai" ->
         FullAiSections
         \cup { [provider |-> "openai", apiKey |-> "k", baseUrl |-> "",
                 model |-> "gpt-4"],
                [provider |-> "openai"] }
    [] s = "analysis" -> FullAnalysisSections \cup { [maxFileSize |-> 2] }
    [] s = "output" -> { [format |-> "markdown", directory |-> "./reports"] }
    [] s = "web" -> { [host |-> "127.0.0.1", port |-> 8000] }

\* what loadConfig returns: every section, every member
LoadedConfigs ==
  { [s \in Sections |->
       CASE s = "ai" -> a
         [] s = "analysis" -> n
         [] s = "output" -> [format |-> "markdown", directory |-> "./reports"]
         [] s = "web" -> [host |-> "127.0.0.1", port |-> 8000]] :
    a \in FullAiSections, n \in FullAnalysisSections }

\* the arguments of updateConfig: some of the sections, each given as an
\* object
Partials ==
  UNION { { u \in [S -> UNION { SectionValues(s) : s \in Sections }] :
              \A s \in S : u[s] \in SectionValues(s) } :
          S \in SUBSET Sections }

\* { ...config, ...updates }
Spread(config, updates) ==
  [s \in DOMAIN config \cup DOMAIN updates |->
     IF s \in DOMAIN updates THEN updates[s] ELSE config[s]]

\* updateConfig on the manager `this` = [config, held, same]: the spread
\* builds a new object, this.config is set to it, and the object a caller
\* holds is no longer the manager's
updateConfigInPlace(this, updates) ==
  [config |-> Spread(this.config, updates),
   held |-> IF this.same THEN <<Spread(this.config, updates)>> ELSE this.held,
   same |-> this.same]
updateConfig(this, updates) ==
  [config |-> Spread(this.config, updates),
   held |-> this.held,
   same |-> FALSE]

ErrApiKey == "AI API key is required"
ErrBaseUrl == "AI base URL is required"

\* !section.member : the member is missing or the empty string
Falsy(section, member) ==
  member \notin DOMAIN section \/ section[member] = ""

\* section.member <= 0, false for a missing member
NotPositive(section, member) ==
  member \in DOMAIN section /\ section[member] <= 0

validateConfigNoExemption(config) ==
  LET errors ==
        (IF Falsy(config.ai, "apiKey") THEN <<ErrApiKey>> ELSE << >>)
        \o (IF Falsy(config.ai, "baseUrl") THEN <<ErrBaseUrl>> ELSE << >>)
        \o (IF NotPositive(config.analysis, "maxFileSize")
            THEN <<"Max file size must be greater than 0">> ELSE << >>)
        \o (IF NotPositive(config.analysis, "maxFilesPerAnalysis")
            THEN <<"Max files per analysis must be greater than 0">>
            ELSE << >>)
  IN  [valid |-> errors = << >>, errors |-> errors]
validateConfig(config) ==
  LET errors ==
        (IF config.ai.provider # "mock" /\ Falsy(config.ai, "apiKey")
         THEN <<ErrApiKey>> ELSE << >>)
        \o (IF config.ai.provider # "mock" /\ Falsy(config.ai, "baseUrl")
            THEN <<ErrBaseUrl>> ELSE << >>)
        \o (IF NotPositive(config.analysis, "maxFileSize")
            THEN <<"Max file size must be greater than 0">> ELSE << >>)
        \o (IF NotPositive(config.analysis, "maxFilesPerAnalysis")
            THEN <<"Max files per analysis must be greater than 0">>
            ELSE << >>)
  IN  [valid |-> errors = << >>, errors |-> errors]

\* configManager.getConfig()
GetConfig ==
  /\ cm' = [held |-> <<cfg>>, seen |-> <<cfg>>, same |-> TRUE,
            call |-> [op |-> "getConfig"]]
  /\ UNCHANGED <<svcVars, hooks, lib>>

\* configManager.updateConfig(updates)
UpdateConfig(updates) ==
  /\ LET out == updateConfig([config |-> cfg, held |-> cm.held,
                              same |-> cm.same], updates)
     IN  /\ cfg' = out.config
         /\ cm' = [cm EXCEPT !.held = out.held, !.same = out.same,
                             !.call = [op |-> "updateConfig",
                                       updates |-> updates]]
  /\ UNCHANGED <<now, nextId, inMap, rec, cpu, pc, task, lastResponse>>
  /\ UNCHANGED <<hooks, lib>>

\* configManager.validateConfig()
ValidateConfig ==
  /\ cm' = [cm EXCEPT !.call = [op |-> "validateConfig",
                                validation |-> validateConfig(cfg)]]
  /\ UNCHANGED <<svcVars, hooks, lib>>

\* The data of the GET /api/config response: provider and model of the ai
\* section (a missing member is undefined and left out of the JSON), the
\* analysis and output sections as they are
apiConfigResponseWholeAi(config) ==
  [success |-> TRUE,
   data |-> [ai |-> config.ai, analysis |-> config.analysis,
             output |-> config.output]]
apiConfigResponse(config) ==
  [success |-> TRUE,
   data |-> [ai |-> [n \in {"provider", "model"} \cap DOMAIN config.ai |->
                       config.ai[n]],
             analysis |-> config.analysis,
             output |-> config.output]]

\* GET /api/config
GetApiConfig ==
  /\ cm' = [cm EXCEPT !.call = [op |-> "GET /api/config",
                                response |-> apiConfigResponse(cfg)]]
  /\ UNCHANGED <<svcVars, hooks, lib>>

ConfigInit ==
  /\ cfg \in LoadedConfigs
  /\ now = 0
  /\ nextId = 0
  /\ inMap = {}
  /\ rec = [t \in Ids |-> NoStatus]
  /\ cpu = 0
  /\ pc = [t \in Ids |-> "idle"]
  /\ task = [t \in Ids |-> NoTask]
  /\ lastResponse = NoResponse
  /\ hooks = NoHooks /\ lib = NoCall
  /\ cm = NoManager

ConfigNext ==
  \/ GetConfig
  \/ \E updates \in Partials : UpdateConfig(updates)
  \/ ValidateConfig
  \/ GetApiConfig

ConfigSpec == ConfigInit /\ [][ConfigNext]_vars

\* ------------------------------------------------------------------ claims
Terminal == {"completed", "failed"}
Started(t) == pc[t] # "idle"

\* C1: a record's status changes only along pending -> processing ->
\* completed or pending -> processing -> failed (after its creation as
\* pending), and once it is completed or failed no step changes its status,
\* results, error or endTime.
C1_StatusLifecycle ==
  [][\A t \in Ids :
       /\ rec'[t].status # rec[t].status =>
            <<rec[t].status, rec'[t].status>> \in
              { <<"none", "pending">>, <<"pending", "processing">>,
                <<"processing", "completed">>, <<"processing", "failed">> }
       /\ rec[t].status \in Terminal =>
            /\ rec'[t].status = rec[t].status
            /\ rec'[t].results = rec[t].results
            /\ rec'[t].error = rec[t].error
            /\ rec'[t].endTime = rec[t].endTime]_vars

\* a completed record that a later sweep has removed and a later request
\* has asked for
C1_Witness ==
  \E t \in Ids :
    /\ rec[t].status = "completed"
    /\ now > rec[t].endTime
    /\ t \notin inMap
    /\ lastResponse.route = "result" /\ lastResponse.id = t

\* C2: every analysis accepted by POST /api/analyze eventually reaches
\* completed or failed, whatever the request and the configuration, provided
\* every version-control and provider call settles.
C2_EventuallyTerminal ==
  Started(1) ~> (rec[1].status \in Terminal)

\* C3: whenever a request handler can run, every record of the map has
\* results iff it is completed, an error message iff it is failed, and an
\* endTime iff it is completed or failed.
C3_RecordConsistent ==
  cpu = 0 =>
    \A id \in inMap :
      /\ (rec[id].results # << >>) <=> (rec[id].status = "completed")
      /\ (rec[id].error # "") <=> (rec[id].status = "failed")
      /\ (rec[id].endTime # -1) <=> (rec[id].status \in Terminal)

C3_Witness ==
  /\ cpu = 0
  /\ \E id \in inMap :
       /\ rec[id].status = "failed"
       /\ rec[id].error = ErrNoValidFiles
       /\ rec[id].endTime >= rec[id].startTime

\* the request a result or report envelope answers found no record, or a
\* record that is not completed
AnsweredUnready(route) ==
  /\ lastResponse'.route = route
  /\ \/ lastResponse'.id \notin inMap
     \/ rec[lastResponse'.id].status # "completed"

RefusedWith(message) ==
  /\ lastResponse'.success = FALSE
  /\ lastResponse'.data = << >>
  /\ lastResponse'.error = message
  /\ inMap' = inMap
  /\ rec' = rec

C5_Progress ==
  /\ [](\A t \in Ids :
          /\ rec[t].progress \in {0, 10, 30, 90, 100}
          /\ (rec[t].progress = 100) <=> (rec[t].status = "completed"))
  /\ [][\A t \in Ids : rec'[t].progress >= rec[t].progress]_vars

C5_Witness ==
  \E t \in Ids : rec[t].status = "completed" /\ rec[t].progress = 100

\* C6: a sweep removes exactly the records started more than one hour before
\* it, whatever their status, leaves every other record present and
\* unchanged, and no record older than one hour is in the map after it.
C6_SweepExact ==
  [][Sweep =>
       /\ inMap' = { id \in inMap : now - rec[id].startTime <= OneHour }
       /\ rec' = rec
       /\ \A id \in inMap' : ~(now - rec[id].startTime > OneHour)]_vars

\* a record swept while its analysis was still processing
C6_Witness ==
  \E t \in Ids :
    /\ Started(t) /\ t \notin inMap
    /\ rec[t].status = "processing"
    /\ now - rec[t].startTime > OneHour

\* the file ids of a result list
Paths(results) == [i \in 1 .. Len(results) |-> results[i].filePath]
Increasing(s) == \A i, j \in 1 .. Len(s) : i < j => s[i] < s[j]

\* C7: at most one provider call of a run is in flight, the batch in flight
\* is the latest one dispatched (every earlier call has settled), and the
\* results are accumulated in batch order.
C7_Sequential ==
  \A t \in Ids :
    /\ Cardinality(task[t].inflight) <= 1
    /\ task[t].inflight \subseteq {Len(task[t].dispatched)}
    /\ Len(task[t].settled) + Cardinality(task[t].inflight) = Len(task[t].dispatched)
    /\ Increasing(Paths(task[t].allResults))
    /\ task[t].response # << >> => Increasing(Paths(task[t].response[1].results))

\* the second batch is in flight, the results of the first are in
C7_Witness ==
  /\ task[1].inflight = {2}
  /\ task[1].allResults # << >>

RECURSIVE Concat(_)
Concat(ss) == IF ss = << >> THEN << >> ELSE ss[1] \o Concat(Tail(ss))

CeilDiv(n, m) == (n + m - 1) \div m

BatchesMade(t) == pc[t] \in {"loop", "awaitProvider", "p90", "complete", "done"}
LoopOver(t) == pc[t] \in {"p90", "complete", "done"}

\* C8: for m > 0 and n >= 1 valid files there are exactly ceil(n/m) batches,
\* each non-empty and of size m except possibly the last, their
\* concatenation is the valid-file list, and the run makes exactly one
\* provider invocation per batch, in order.
C8_Batching ==
  \A t \in Ids :
    LET m == cfg.analysis.maxFilesPerAnalysis
        n == Len(task[t].valid)
        b == task[t].batches
    IN  (m > 0 /\ n >= 1) =>
          /\ BatchesMade(t) =>
               /\ Len(b) = CeilDiv(n, m)
               /\ \A i \in 1 .. Len(b) :
                    /\ Len(b[i]) >= 1
                    /\ Len(b[i]) <= m
                    /\ i < Len(b) => Len(b[i]) = m
               /\ Concat(b) = task[t].valid
          /\ LoopOver(t) =>
               /\ task[t].dispatched = b
               /\ (createProviderOk(cfg.ai.provider) /\ isAvailable(cfg.ai))
                    => task[t].calls = b

\* three valid files in batches of two: invocations of sizes 2 and 1
C8_Witness ==
  /\ pc[1] = "done"
  /\ cfg.analysis.maxFilesPerAnalysis = 2
  /\ Len(task[1].valid) = 3
  /\ Len(task[1].calls) = 2
  /\ Len(task[1].calls[1]) = 2 /\ Len(task[1].calls[2]) = 1

\* the results of the calls that returned, in the order the calls settled
RECURSIVE KeptResults(_)
KeptResults(log) ==
  IF log = << >> THEN << >>
  ELSE (IF log[1].out = << >> THEN << >> ELSE log[1].out[1])
       \o KeptResults(Tail(log))

SomeBatchFailed(t) == \E i \in 1 .. Len(task[t].settled) : task[t].settled[i].out = << >>

\* C9: when the provider call of a batch fails, that batch contributes no
\* results, every later batch is still dispatched, the results of all
\* successful batches are kept, no batch is retried, and analyzeFiles
\* returns a response.
C9_PartialFailure ==
  \A t \in Ids :
    (LoopOver(t) /\ cfg.analysis.maxFilesPerAnalysis > 0
       /\ task[t].valid # << >> /\ SomeBatchFailed(t)) =>
      /\ task[t].dispatched = task[t].batches
      /\ Len(task[t].settled) = Len(task[t].batches)
      /\ \A i \in 1 .. Len(task[t].settled) : task[t].settled[i].j = i
      /\ task[t].response # << >>
      /\ task[t].response[1].results = KeptResults(task[t].settled)
      /\ \A i \in 1 .. Len(task[t].settled) :
           task[t].settled[i].out = << >> =>
             \A r \in 1 .. Len(task[t].response[1].results) :
               \A f \in 1 .. Len(task[t].batches[i]) :
                 task[t].response[1].results[r].filePath # task[t].batches[i][f]
      /\ pc[t] = "done" => rec[t].status = "completed"

\* the first batch failed, the second was still analysed and its results
\* are in the response
C9_Witness ==
  /\ pc[1] = "done"
  /\ Len(task[1].settled) >= 2
  /\ task[1].settled[1].out = << >>
  /\ task[1].settled[2].out # << >>
  /\ rec[1].results # << >>
  /\ rec[1].results[1].results # << >>

\* C10: with an unavailable provider a run over at least one valid file ends
\* in a failure naming the provider, and no provider analyze call is made.
C10_UnavailableFails ==
  (/\ pc[1] = "done"
   /\ createProviderOk(cfg.ai.provider) /\ ~isAvailable(cfg.ai)
   /\ task[1].valid # << >>) =>
     /\ rec[1].status = "failed"
     /\ rec[1].error = ErrUnavailable(cfg.ai.provider)
     /\ task[1].calls = << >>

\* C11: analyzeFiles drops exactly the pattern-accepted files whose size is
\* greater than maxFileSize and keeps the others in order (a file whose size
\* equals the limit is kept); when some file is accepted by the patterns and
\* every accepted file exceeds the limit, the run fails with 'No valid files
\* to analyze (all files exceed size limit)', and a run that failed so has
\* invoked no provider.
C11_SizeLimit ==
  /\ [][(pc[1] = "filter" /\ pc'[1] # "filter") =>
         LET accepted == filterFiles(cfg, task[1].input)
             limit == cfg.analysis.maxFileSize
             fitting == { f \in Range(accepted) : ~(SizeOf(f) > limit) }
         IN  /\ (accepted # << >> /\ fitting # {}) =>
                  /\ pc'[1] = "batching"
                  /\ Range(task'[1].valid) = fitting
                  /\ Len(task'[1].valid) = Cardinality(fitting)
                  /\ Increasing(task'[1].valid)
             /\ (accepted # << >> /\ fitting = {}) =>
                  /\ pc'[1] = "done"
                  /\ rec'[1].status = "failed"
                  /\ rec'[1].error = ErrNoValidFiles
             /\ rec'[1].error = ErrNoValidFiles =>
                  (accepted # << >> /\ fitting = {})]_vars
  /\ [](rec[1].error = ErrNoValidFiles =>
          /\ task[1].dispatched = << >>
          /\ task[1].calls = << >>
          /\ pc[1] = "done")

\* of three accepted files the one whose size equals the limit is the only
\* one kept
C11_Witness ==
  /\ pc[1] = "batching"
  /\ Len(filterFiles(cfg, task[1].input)) = 3
  /\ Len(task[1].valid) = 1
  /\ SizeOf(task[1].valid[1]) = cfg.analysis.maxFileSize

\* analyzeFiles has returned to performAnalysis
Returned(t) ==
  \/ pc[t] \in {"p90", "complete"}
  \/ pc[t] = "done" /\ rec[t].status = "completed"

\* C12: when the input list is empty or the pattern filter leaves no file,
\* analyzeFiles returns, under every configuration and without invoking a
\* provider, a response with no results, totalFiles, totalIssues and
\* totalSuggestions 0, the five severity counts and the seven category
\* counts all present and 0, and qualityScore 100.
C12_EmptyRun ==
  /\ [][\A t \in Ids :
          (pc[t] = "filter" /\ pc'[t] # "filter"
             /\ filterFiles(cfg, task[t].input) = << >>) => Returned(t)']_vars
  /\ [](\A t \in Ids :
          (Returned(t) /\ filterFiles(cfg, task[t].input) = << >>) =>
            /\ task[t].response # << >>
            /\ LET r == task[t].response[1] IN
                 /\ r.results = << >>
                 /\ r.summary.totalFiles = 0
                 /\ r.summary.totalIssues = 0
                 /\ r.summary.totalSuggestions = 0
                 /\ DOMAIN r.summary.severityCounts = Severities
                 /\ Cardinality(DOMAIN r.summary.severityCounts) = 5
                 /\ \A k \in Severities : r.summary.severityCounts[k] = 0
                 /\ DOMAIN r.summary.categoryCounts = Categories
                 /\ Cardinality(DOMAIN r.summary.categoryCounts) = 7
                 /\ \A k \in Categories : r.summary.categoryCounts[k] = 0
                 /\ r.summary.qualityScore = 100
                 /\ pc[t] = "done" => rec[t].results = <<r>>
            /\ task[t].dispatched = << >>
            /\ task[t].calls = << >>)

\* a run over one file that the exclude pattern removes, with a provider
\* that could not have been constructed
C12_Witness ==
  /\ pc[1] = "done" /\ rec[1].status = "completed"
  /\ task[1].input # << >>
  /\ filterFiles(cfg, task[1].input) = << >>
  /\ ~createProviderOk(cfg.ai.provider)
  /\ cfg.analysis.maxFilesPerAnalysis = 0

MatchesSome(f, patterns) ==
  \E i \in 1 .. Len(patterns) : matchesPattern(PathOf(f), patterns[i])

\* the position of f in a list without repetitions
PosIn(s, f) == CHOOSE i \in 1 .. Len(s) : s[i] = f

\* C13: filterFiles keeps a file if and only if its path matches at least one
\* include pattern and no exclude pattern (a file matching no include pattern
\* is dropped whatever the exclude patterns are), and the kept files are in
\* the relative order of the input.
C13_FilterFiles ==
  (lib.op = "filterFiles" /\ lib.returned) =>
    /\ \A f \in Range(lib.files) :
         /\ f \in Range(lib.kept) <=>
              (MatchesSome(f, lib.include) /\ ~MatchesSome(f, lib.exclude))
         /\ ~MatchesSome(f, lib.include) => f \notin Range(lib.kept)
    /\ Range(lib.kept) \subseteq Range(lib.files)
    /\ Cardinality(Range(lib.kept)) = Len(lib.kept)
    /\ \A i, j \in 1 .. Len(lib.kept) :
         i < j => PosIn(lib.files, lib.kept[i]) < PosIn(lib.files, lib.kept[j])

\* one call in which two files are kept out of path order, one is dropped
\* for an exclude pattern although an include pattern matches it, and one
\* matches no include pattern and no exclude pattern
C13_Witness ==
  /\ lib.op = "filterFiles" /\ lib.returned
  /\ Len(lib.kept) = 2 /\ lib.kept[1] > lib.kept[2]
  /\ \E f \in Range(lib.files) :
       MatchesSome(f, lib.include) /\ MatchesSome(f, lib.exclude)
  /\ \E f \in Range(lib.files) :
       ~MatchesSome(f, lib.include) /\ ~MatchesSome(f, lib.exclude)

\* the number of list members named field over all results
RECURSIVE Total(_, _)
Total(results, field) ==
  IF results = << >> THEN 0
  ELSE Len(results[1][field]) + Total(Tail(results), field)

\* q is round(100 - min(10 I / F, 50) + min(2 S / F, 10)) clamped to
\* [0, 100], halves rounded up, in exact arithmetic
IsScoreOf(q, F, I, S) ==
  LET x == 100 * F - Min(10 * I, 50 * F) + Min(2 * S, 10 * F)
  IN  \E q0 \in 0 .. 110 :
        /\ 2 * F * q0 - F <= 2 * x
        /\ 2 * x < 2 * F * q0 + F
        /\ q = IF q0 > 100 THEN 100 ELSE q0

\* C14: for a run whose provider calls returned F > 0 results with I issues
\* and S suggestions in total, the run-level qualityScore is
\* round(100 - min(10 I / F, 50) + min(2 S / F, 10)) clamped to [0, 100]
\* (F = 2, I = 3, S = 1 gives 86), and the qualityScore of every run is an
\* integer in [0, 100].
C14_QualityScore ==
  /\ calculateQualityScore(3, 1, 2) = 86
  /\ \A t \in Ids :
       task[t].response # << >> =>
         LET r == task[t].response[1]
             F == Len(r.results)
         IN  /\ r.summary.qualityScore \in 0 .. 100
             /\ F > 0 => IsScoreOf(r.summary.qualityScore, F,
                                   Total(r.results, "issues"),
                                   Total(r.results, "suggestions"))

\* C14, for the runs all of whose results carry an array of suggestions:
\* the score is the clamped, rounded value of the formula
C14_ScoreOfArrays ==
  \A t \in Ids :
    (/\ task[t].response # << >>
     /\ \A i \in 1 .. Len(task[t].response[1].results) :
          task[t].response[1].results[i].suggestionsIsArray) =>
      LET r == task[t].response[1]
          F == Len(r.results)
      IN  /\ r.summary.qualityScore \in 0 .. 100
          /\ F > 0 => IsScoreOf(r.summary.qualityScore, F,
                                Total(r.results, "issues"),
                                Total(r.results, "suggestions"))

\* the number of issues of the results whose member field is label
CountOf(results, field, label) ==
  LET issues == AllIssues(results)
  IN  Cardinality({ i \in 1 .. Len(issues) : issues[i][field] = label })

\* C15: in every response analyzeFiles returns, severityCounts has exactly
\* the five severity keys and categoryCounts exactly the seven issue-type
\* keys, each holding the non-negative number of issues of that severity or
\* type over all results, whatever issue lists the provider returned.
C15_CountMaps ==
  \A t \in Ids :
    task[t].response # << >> =>
      LET r == task[t].response[1] IN
        /\ DOMAIN r.summary.severityCounts = Severities
        /\ DOMAIN r.summary.categoryCounts = Categories
        /\ \A k \in Severities :
             /\ r.summary.severityCounts[k] >= 0
             /\ r.summary.severityCounts[k] = CountOf(r.results, "severity", k)
        /\ \A k \in Categories :
             /\ r.summary.categoryCounts[k] >= 0
             /\ r.summary.categoryCounts[k] = CountOf(r.results, "type", k)

\* C15, for the runs whose issues all carry labels of the two enumerations
C15_CountsOfTypedIssues ==
  \A t \in Ids :
    (/\ task[t].response # << >>
     /\ \A i \in 1 .. Len(AllIssues(task[t].response[1].results)) :
          /\ AllIssues(task[t].response[1].results)[i].severity \in Severities
          /\ AllIssues(task[t].response[1].results)[i].type \in Categories) =>
      LET r == task[t].response[1] IN
        /\ DOMAIN r.summary.severityCounts = Severities
        /\ DOMAIN r.summary.categoryCounts = Categories
        /\ \A k \in Severities :
             r.summary.severityCounts[k] = CountOf(r.results, "severity", k)
        /\ \A k \in Categories :
             r.summary.categoryCounts[k] = CountOf(r.results, "type", k)

\* C16: uninstallAllHooks deletes the file at pre-commit, commit-msg or
\* post-commit if and only if the file exists and its content contains
\* 'AI Code Review'; every hook file without the marker and every file at
\* another path stays in place with its content.
C16_UninstallExact ==
  [][UninstallAllHooks =>
       /\ \A p \in Range(HookNames) :
            IF hooks.dir[p].kind = "file"
                 /\ Contains(hooks.dir[p].content, Marker)
            THEN hooks'.dir[p] = Missing
            ELSE hooks'.dir[p] = hooks.dir[p]
       /\ hooks'.dir[OtherHook] = hooks.dir[OtherHook]]_vars

\* C16, the half that protects other tools' hooks: whatever the build and
\* the directory, an entry that is no file carrying the marker, and every
\* entry at another path, is left as it was
C16_UnmarkedKept ==
  [][UninstallAllHooks =>
       /\ \A p \in Range(HookNames) :
            ~(hooks.dir[p].kind = "file"
                /\ Contains(hooks.dir[p].content, Marker))
              => hooks'.dir[p] = hooks.dir[p]
       /\ hooks'.dir[OtherHook] = hooks.dir[OtherHook]]_vars

InList(x, s) == \E i \in 1 .. Len(s) : s[i] = x

\* C17: validateConfig reports valid = false with 'AI API key is required'
\* among the errors whenever the provider is not mock and apiKey is empty,
\* and with 'AI base URL is required' whenever the provider is not mock and
\* baseUrl is empty; for provider mock neither error is reported, so with
\* maxFileSize > 0 and maxFilesPerAnalysis > 0 the configuration is valid
\* whatever apiKey and baseUrl are; validateConfig returns a verdict for
\* every configuration and changes neither the configuration nor an object
\* a caller holds.
C17_ValidateConfig ==
  /\ [](cm.call.op = "validateConfig" =>
          LET v == cm.call.validation IN
            /\ v.valid \in BOOLEAN
            /\ (cfg.ai.provider # "mock" /\ Falsy(cfg.ai, "apiKey")) =>
                 (~v.valid /\ InList(ErrApiKey, v.errors))
            /\ (cfg.ai.provider # "mock" /\ Falsy(cfg.ai, "baseUrl")) =>
                 (~v.valid /\ InList(ErrBaseUrl, v.errors))
            /\ cfg.ai.provider = "mock" =>
                 /\ ~InList(ErrApiKey, v.errors)
                 /\ ~InList(ErrBaseUrl, v.errors)
                 /\ ("maxFileSize" \in DOMAIN cfg.analysis
                       /\ cfg.analysis.maxFileSize > 0
                       /\ "maxFilesPerAnalysis" \in DOMAIN cfg.analysis
                       /\ cfg.analysis.maxFilesPerAnalysis > 0) => v.valid)
  /\ [][ValidateConfig =>
          /\ cfg' = cfg
          /\ cm'.held = cm.held
          /\ cm'.call.op = "validateConfig"]_vars

\* a validation of a deepseek configuration without API key: invalid, with
\* the API key message and not the base URL message
C17_Witness ==
  /\ cm.call.op = "validateConfig"
  /\ cfg.ai.provider = "deepseek" /\ cfg.ai.apiKey = ""
  /\ ~cm.call.validation.valid
  /\ cm.call.validation.errors = <<ErrApiKey>>

\* C18: updateConfig(partial) replaces each top-level section present in
\* partial by the given section as a whole (members of the old section that
\* the new one omits are not carried over), leaves every section absent
\* from partial unchanged, and does not modify an object a caller obtained
\* from getConfig before the update.
C18_UpdateConfig ==
  /\ [][UpdateConfig(IF cm'.call.op = "updateConfig"
                      THEN cm'.call.updates ELSE << >>) =>
          LET updates == cm'.call.updates IN
            /\ DOMAIN cfg' = Sections
            /\ \A s \in Sections :
                 IF s \in DOMAIN updates
                 THEN /\ cfg'[s] = updates[s]
                      /\ DOMAIN cfg'[s] = DOMAIN updates[s]
                 ELSE cfg'[s] = cfg[s]
            /\ cm'.held = cm.held]_vars
  /\ [](cm.held = cm.seen)

\* after an update whose ai section omits apiKey the configuration has no
\* apiKey, and the object obtained before still has the old section
C18_Witness ==
  /\ cm.call.op = "updateConfig"
  /\ DOMAIN cm.call.updates = {"ai"}
  /\ "apiKey" \notin DOMAIN cfg.ai
  /\ cm.held # << >>
  /\ cm.held[1].ai.apiKey = "k"
  /\ cm.held[1].analysis = cfg.analysis


IdsOf(list) == [i \in 1 .. Len(list) |-> list[i].id]

\* C19: MockProvider.analyzeCode returns one result per input file in input
\* order, determined by the file's extension alone: a .js file gets exactly
\* the issues js-001, js-002, js-003 and the suggestions js-sug-001,
\* js-sug-002; a .ts file gets exactly ts-001, ts-002, ts-003 and
\* ts-sug-001, ts-sug-002; a file with any other extension gets no issues
\* and no suggestions.
C19_MockByExtension ==
  (lib.op = "mockAnalyzeCode" /\ lib.returned) =>
    /\ Len(lib.results) = Len(lib.files)
    /\ \A i \in 1 .. Len(lib.files) :
         LET r == lib.results[i]
             ext == ExtOf(lib.files[i])
         IN  /\ r.filePath = lib.files[i]
             /\ IdsOf(r.issues) =
                  (CASE ext = <<".", "j", "s">> ->
                          <<"js-001", "js-002", "js-003">>
                     [] ext = <<".", "t", "s">> ->
                          <<"ts-001", "ts-002", "ts-003">>
                     [] OTHER -> << >>)
             /\ IdsOf(r.suggestions) =
                  (CASE ext = <<".", "j", "s">> ->
                          <<"js-sug-001", "js-sug-002">>
                     [] ext = <<".", "t", "s">> ->
                          <<"ts-sug-001", "ts-sug-002">>
                     [] OTHER -> << >>)

\* the same for the files whose path contains ".js" or ".ts" only as their
\* extension, and one result per file in input order for all
C19_PlainExtensions ==
  (lib.op = "mockAnalyzeCode" /\ lib.returned) =>
    /\ Len(lib.results) = Len(lib.files)
    /\ \A i \in 1 .. Len(lib.files) :
         LET r == lib.results[i]
             ext == ExtOf(lib.files[i])
         IN  /\ r.filePath = lib.files[i]
             /\ ext \in {<<".", "j", "s">>, <<".", "t", "s">>,
                         <<".", "m", "d">>} =>
                  /\ IdsOf(r.issues) =
                       (CASE ext = <<".", "j", "s">> ->
                               <<"js-001", "js-002", "js-003">>
                          [] ext = <<".", "t", "s">> ->
                               <<"ts-001", "ts-002", "ts-003">>
                          [] OTHER -> << >>)
                  /\ IdsOf(r.suggestions) =
                       (CASE ext = <<".", "j", "s">> ->
                               <<"js-sug-001", "js-sug-002">>
                          [] ext = <<".", "t", "s">> ->
                               <<"ts-sug-001", "ts-sug-002">>
                          [] OTHER -> << >>)

\* the responses the claim puts under "no message content", and the
\* contents it puts under "no JSON object, or not decodable into results"
NoMessageContent(response) ==
  \/ response.body \in {"null", "noChoices"}
  \/ response.content.isString /\ response.content.text = << >>
Undecodable(content) ==
  \/ ~content.isString
  \/ ~JsonMatch(content.text)
  \/ ~content.json.parses
  \/ content.json.results = "notList"
  \/ content.json.results = "list" /\ content.json.elements # "ok"

\* C20: for each HTTP-backed provider, analyzeCode throws an error naming
\* the provider when the request fails or the response carries no message
\* content, and otherwise does not throw; when the content contains no JSON
\* object or the object cannot be decoded into results, it returns exactly
\* one fallback result per input file, with no issues, one medium-priority
\* suggestion and qualityScore 75.
C20_HttpAnalyzeCode ==
  (lib.op = "httpAnalyzeCode" /\ lib.returned) =>
    LET r == lib.response
        out == lib.out
    IN  IF r.transport = "error" \/ NoMessageContent(r)
        THEN /\ out.threw
             /\ \E m \in {ErrTransport, ErrNullBody,
                          ErrNoContent(lib.provider)} :
                  out.error =
                    ProviderLabel(lib.provider) \o " API request failed: " \o m
        ELSE /\ ~out.threw
             /\ Undecodable(r.content) =>
                  /\ Len(out.results) = Len(lib.files)
                  /\ \A i \in 1 .. Len(lib.files) :
                       /\ out.results[i].filePath = lib.files[i]
                       /\ out.results[i].issues = << >>
                       /\ out.results[i].suggestionsIsArray
                       /\ Len(out.results[i].suggestions) = 1
                       /\ out.results[i].suggestions[1].priority = "medium"
                       /\ out.results[i].qualityScore = 75

\* a DeepSeek call over two files whose content was a JSON text with a
\* `results` member that is not a list: two fallback results
C20_Witness ==
  /\ lib.op = "httpAnalyzeCode" /\ lib.returned
  /\ lib.provider = "deepseek"
  /\ lib.response.transport = "ok" /\ lib.response.body = "content"
  /\ lib.response.content.json.results = "notList"
  /\ Len(lib.files) = 2
  /\ ~lib.out.threw
  /\ Len(lib.out.results) = 2
  /\ lib.out.results[2].qualityScore = 75


\* the run of task t had valid files, its batch loop is over and every
\* analyzeBatch call it made ended in an error
AllBatchesFailed(t) ==
  /\ pc[t] = "done"
  /\ task[t].valid # << >>
  /\ task[t].settled # << >>
  /\ \A i \in 1 .. Len(task[t].settled) : task[t].settled[i].out = << >>

\* C23: if the provider call fails for every batch of a run with at least
\* one valid file, analyzeFiles still returns a response, with empty
\* results, totalFiles 0, totalIssues 0 and qualityScore 100, whose summary
\* equals that of the response for a run with no files; started through
\* POST /api/analyze the run ends with status completed, not failed.
C23_AllBatchesFail ==
  AllBatchesFailed(1) =>
    /\ rec[1].status = "completed"
    /\ rec[1].error = ""
    /\ rec[1].results # << >>
    /\ rec[1].results[1].results = << >>
    /\ rec[1].results[1].summary.totalFiles = 0
    /\ rec[1].results[1].summary.totalIssues = 0
    /\ rec[1].results[1].summary.qualityScore = 100
    /\ rec[1].results[1].summary = createEmptyResponse(cfg).summary

\* a run of two batches under an available HTTP provider, both calls threw
C23_Witness ==
  /\ AllBatchesFailed(1)
  /\ isAvailable(cfg.ai)
  /\ Len(task[1].batches) = 2
  /\ Len(task[1].calls) = 2
  /\ rec[1].status = "completed"


\* the ids issued so far; a record leaves the map only through the sweep
Issued == 1 .. nextId

\* C28: once the periodic sweep has removed a status record, the status map
\* never again contains a record with that id, even when the background
\* task of that id is still running at the time of the sweep and finishes
\* afterwards.
C28_SweptStaysOut ==
  [][\A id \in Issued : id \notin inMap => id \notin inMap']_vars

\* the same for the records whose background task had ended when the sweep
\* removed them
C28_SweptAfterEndStaysOut ==
  [][\A id \in Issued :
       (id \notin inMap /\ pc[id] = "done") => id \notin inMap']_vars


\* the event loop is idle: a request handler or the sweep can run next
Idle == cpu = 0

\* C29: the background task runs synchronously inside the POST
\* /api/analyze handler up to its first suspension point: when the POST
\* response is returned the record of the returned id is in the map and is
\* processing with progress 30, or failed; and whenever another request
\* handler or the sweep can run, no record has status pending or progress
\* 0, 10 or 90.
C29_SynchronousStart ==
  /\ (lastResponse.route = "post" /\ lastResponse.success) =>
       /\ lastResponse.id \in inMap
       /\ \/ /\ rec[lastResponse.id].status = "processing"
             /\ rec[lastResponse.id].progress = 30
          \/ rec[lastResponse.id].status = "failed"
  /\ Idle =>
       \A id \in inMap :
         /\ rec[id].status # "pending"
         /\ rec[id].progress \notin {0, 10, 90}

\* the POST response of a staged analysis has just been returned: the task
\* is suspended at the version-control query, its record at progress 30
C29_Witness ==
  /\ lastResponse.route = "post" /\ lastResponse.success
  /\ Idle
  /\ pc[lastResponse.id] = "awaitGit"
  /\ rec[lastResponse.id].status = "processing"
  /\ rec[lastResponse.id].progress = 30


\* a step of the background task of analysis t: its position or its locals
\* change (the POST handler's call of performAnalysis included)
TaskStep(t) == pc'[t] # pc[t] \/ task'[t] # task[t]

\* C30: with several analyses in flight and pairwise distinct ids, every
\* step of a background analysis task modifies only the status record
\* stored under its own id: the records of all other analyses and the set
\* of other keys of the status map are unchanged by that step.
C30_OwnRecordOnly ==
  [][\A t \in PairIds :
       TaskStep(t) =>
         \A u \in PairIds \ {t} :
           /\ rec'[u] = rec[u]
           /\ (u \in inMap') = (u \in inMap)]_vars

\* analysis 1 has just set progress 90 while analysis 2, started before,
\* waits for its provider with its record still at progress 30
C30_Witness ==
  /\ pc[1] = "complete" /\ rec[1].progress = 90
  /\ pc[2] = "awaitProvider"
  /\ rec[2].status = "processing" /\ rec[2].progress = 30
  /\ {1, 2} \subseteq inMap


\* the values apiKey and baseUrl can take, "" for an empty one
Secrets == {"", "k", "u", "sk-other"}

\* the configuration that differs from config in ai.apiKey and ai.baseUrl
\* only
WithSecrets(config, apiKey, baseUrl) ==
  [config EXCEPT !.ai =
     [n \in DOMAIN config.ai \cup {"apiKey", "baseUrl"} |->
        IF n = "apiKey" THEN apiKey
        ELSE IF n = "baseUrl" THEN baseUrl
        ELSE config.ai[n]]]

\* C21: the response of GET /api/config does not depend on ai.apiKey or
\* ai.baseUrl: a configuration that differs from the current one only in
\* those two fields gives the identical response.
C21_ConfigResponse ==
  cm.call.op = "GET /api/config" =>
    /\ \A apiKey \in Secrets, baseUrl \in Secrets :
         apiConfigResponse(WithSecrets(cfg, apiKey, baseUrl)) =
           cm.call.response
    /\ DOMAIN cm.call.response.data.ai \subseteq {"provider", "model"}

\* the response under an openai configuration that holds a key and a URL
C21_Witness ==
  /\ cm.call.op = "GET /api/config"
  /\ cfg.ai.provider = "openai"
  /\ "apiKey" \in DOMAIN cfg.ai /\ cfg.ai.apiKey = "k"
  /\ cfg.ai.baseUrl = "u"
  /\ cm.call.response.data.ai = [provider |-> "openai", model |-> "gpt-4"]
  /\ cm.call.response.data.analysis = cfg.analysis


\* C22: getStagedChanges returns exactly one FileChange, with status
\* modified, for every file the repository status reports as staged,
\* whether or not the file still exists in the working tree (a file missing
\* from disk yields empty content and size 0), in the order reported; if
\* the status query fails it returns an empty list.
C22_StagedChanges ==
  (lib.op = "getStagedChanges" /\ lib.returned) =>
    IF ~lib.statusOk THEN lib.changes = << >>
    ELSE /\ Len(lib.changes) = Len(lib.staged)
         /\ \A i \in 1 .. Len(lib.staged) :
              /\ lib.changes[i].filePath = lib.staged[i]
              /\ lib.changes[i].status = "modified"
              /\ lib.staged[i] \notin lib.disk =>
                   (~lib.changes[i].hasContent /\ lib.changes[i].size = 0)

\* what holds: one FileChange with status modified for every staged file
\* that is on disk, in the order reported, and an empty list when the
\* status query fails
C22_StagedChangesOnDisk ==
  (lib.op = "getStagedChanges" /\ lib.returned) =>
    IF ~lib.statusOk THEN lib.changes = << >>
    ELSE LET onDisk(f) == f \in lib.disk
             kept == SelectSeq(lib.staged, onDisk)
         IN  /\ Len(lib.changes) = Len(kept)
             /\ \A i \in 1 .. Len(kept) :
                  /\ lib.changes[i].filePath = kept[i]
                  /\ lib.changes[i].status = "modified"
                  /\ lib.changes[i].size = SizeOf(kept[i])


\* Matching of the glob p from position pos of s as the claim reads the
\* wildcards: `**` any run of characters, `*` any run without '/', `?` one
\* character; like the code's expression, a '.' of the glob stands for any
\* one character and the match may begin and end anywhere in the path.
RECURSIVE GlobMatchAt(_, _, _)
GlobMatchAt(p, s, pos) ==
  IF p = << >> THEN TRUE
  ELSE IF Len(p) >= 2 /\ p[1] = "*" /\ p[2] = "*"
       THEN \E n \in 0 .. (Len(s) - pos + 1) :
              GlobMatchAt(SubSeq(p, 3, Len(p)), s, pos + n)
  ELSE IF p[1] = "*"
       THEN \E n \in 0 .. (Len(s) - pos + 1) :
              /\ \A j \in pos .. (pos + n - 1) : s[j] # "/"
              /\ GlobMatchAt(Tail(p), s, pos + n)
  ELSE /\ pos <= Len(s)
       /\ (p[1] \in {"?", "."} \/ p[1] = s[pos])
       /\ GlobMatchAt(Tail(p), s, pos + 1)

GlobMatch(p, s) == \E pos \in 1 .. (Len(s) + 1) : GlobMatchAt(p, s, pos)

HasDoubleStar(p) == \E i \in 1 .. (Len(p) - 1) : p[i] = "*" /\ p[i + 1] = "*"

\* C24: in matchesPattern a `**` of the glob matches any sequence of
\* characters including path separators, a single `*` any sequence of
\* characters that contains no '/', and `?` exactly one character.
C24_GlobWildcards ==
  (lib.op = "matchesPattern" /\ lib.returned) =>
    lib.result = GlobMatch(lib.pattern, lib.filePath)

\* what holds: the same for the globs without `**`
C24_StarAndQuestion ==
  (lib.op = "matchesPattern" /\ lib.returned /\ ~HasDoubleStar(lib.pattern))
    => lib.result = GlobMatch(lib.pattern, lib.filePath)


\* String.prototype.endsWith and String.prototype.startsWith
EndsWith(s, suffix) ==
  Len(s) >= Len(suffix) /\ SubSeq(s, Len(s) - Len(suffix) + 1, Len(s)) = suffix
StartsWith(s, prefix) ==
  Len(s) >= Len(prefix) /\ SubSeq(s, 1, Len(prefix)) = prefix

\* the path ends with a point and one of js, ts, jsx, tsx, py, java, go, rs
HasSourceExtension(path) ==
  \E ext \in { <<"j", "s">>, <<"t", "s">>, <<"j", "s", "x">>,
                <<"t", "s", "x">>, <<"p", "y">>, <<"j", "a", "v", "a">>,
                <<"g", "o">>, <<"r", "s">> } :
    EndsWith(path, <<".">> \o ext)

\* the path lies under node_modules/, dist/ or build/
UnderExcludedDirectory(path) ==
  \E dir \in { <<"n", "o", "d", "e", "_", "m", "o", "d", "u", "l", "e", "s",
                 "/">>,
                <<"d", "i", "s", "t", "/">>,
                <<"b", "u", "i", "l", "d", "/">> } :
    StartsWith(path, dir) \/ Contains(path, <<"/">> \o dir)

\* a configuration was loaded with both pattern variables unset
DefaultPatternsLoaded ==
  /\ lib.op = "loadConfig" /\ lib.returned
  /\ lib.env["INCLUDE_PATTERNS"] = << >>
  /\ lib.env["EXCLUDE_PATTERNS"] = << >>

\* C25: with INCLUDE_PATTERNS and EXCLUDE_PATTERNS unset, the loaded
\* includePatterns list is the single glob **/*.{js,ts,jsx,tsx,py,java,go,rs}
\* and filterFiles keeps exactly the files whose extension is one of js, ts,
\* jsx, tsx, py, java, go, rs and that do not lie under node_modules/, dist/
\* or build/ (example.js and src/a.ts are kept, README.md and tests/notes.txt
\* are dropped).
C25_DefaultPatterns ==
  DefaultPatternsLoaded =>
    /\ lib.config.analysis.includePatterns =
         << 
            <<"*", "*", "/", "*", ".", "{", "j", "s", ",", "t", "s", ",",
              "j", "s", "x", ",", "t", "s", "x", ",", "p", "y", ",", "j",
              "a", "v", "a", ",", "g", "o", ",", "r", "s", "}">> >>
    /\ lib.kept =
         SelectSeq(lib.files,
                   LAMBDA f : /\ HasSourceExtension(PathOf(f))
                              /\ ~UnderExcludedDirectory(PathOf(f)))

\* What the code does with both variables unset: the default text is split
\* at its commas into eight include patterns and three exclude patterns, and
\* of the example files src/a.ts and tests/notes.txt are kept (each contains
\* the text ts) while example.js, README.md, dist/b.py and src/m.rs are
\* dropped.
C25_DefaultSplitAtCommas ==
  DefaultPatternsLoaded =>
    /\ Len(lib.config.analysis.includePatterns) = 8
    /\ lib.config.analysis.includePatterns[2] = <<"t", "s">>
    /\ Len(lib.config.analysis.excludePatterns) = 3
    /\ Range(lib.kept) = Range(lib.files) \cap {12, 14}

\* the text of the environment variable is a decimal number
IsNumberText(text) ==
  /\ text # << >>
  /\ \A i \in 1 .. Len(text) :
       text[i] \in {"0", "1", "2", "3", "4", "5", "6", "7", "8", "9", "."}
  /\ \E i \in 1 .. Len(text) : text[i] # "."

\* the member of the loaded configuration read from the variable, and its
\* documented default (the temperature in tenths)
MemberOf(config, name) ==
  CASE name = "AI_TEMPERATURE" -> config.ai.temperature
    [] name = "AI_MAX_TOKENS" -> config.ai.maxTokens
    [] name = "AI_TIMEOUT" -> config.ai.timeout
    [] name = "MAX_FILE_SIZE" -> config.analysis.maxFileSize
    [] name = "MAX_FILES_PER_ANALYSIS" -> config.analysis.maxFilesPerAnalysis
    [] name = "ANALYSIS_TIMEOUT" -> config.analysis.timeout
    [] name = "WEB_PORT" -> config.web.port
DocumentedDefault(name) ==
  CASE name = "AI_TEMPERATURE" -> 1
    [] name = "AI_MAX_TOKENS" -> 4000
    [] name = "AI_TIMEOUT" -> 30000
    [] name = "MAX_FILE_SIZE" -> 100000
    [] name = "MAX_FILES_PER_ANALYSIS" -> 50
    [] name = "ANALYSIS_TIMEOUT" -> 300
    [] name = "WEB_PORT" -> 8000
NumericVariables ==
  {"AI_TEMPERATURE", "AI_MAX_TOKENS", "AI_TIMEOUT", "MAX_FILE_SIZE",
   "MAX_FILES_PER_ANALYSIS", "ANALYSIS_TIMEOUT", "WEB_PORT"}

\* C26: when a numeric environment variable is unset or holds a text that is
\* not a number, the member of the loaded configuration read from it has its
\* documented default (100000, 50, 300, 4000, 30000, 0.1, 8000).
C26_NumericDefaults ==
  (lib.op = "loadConfig" /\ lib.returned) =>
    \A name \in NumericVariables :
      ~IsNumberText(lib.env[name]) =>
        MemberOf(lib.config, name) = DocumentedDefault(name)

\* What the code does: an unset variable gives the documented default, and
\* a text that starts with no digit gives NaN.
C26_UnsetDefaultElseNaN ==
  (lib.op = "loadConfig" /\ lib.returned) =>
    \A name \in NumericVariables :
      /\ lib.env[name] = << >> =>
           MemberOf(lib.config, name) = DocumentedDefault(name)
      /\ lib.env[name] = <<"a", "b", "c">> =>
           MemberOf(lib.config, name) = NaN
      /\ lib.env[name] = <<"7", ".", "5">> =>
           MemberOf(lib.config, name)
             = (IF name = "AI_TEMPERATURE" THEN 75 ELSE 7)

\* the entry is a file whose content lacks the marker
ThirdParty(entry) == entry.kind = "file" /\ ~Contains(entry.content, Marker)

\* C27: the hook-management operations never overwrite a third party's hook:
\* a file without the marker 'AI Code Review' that was at pre-commit,
\* commit-msg or post-commit before the first command is still there with
\* its original content after any sequence of install, install-all,
\* uninstall-all and status operations.
C27_ThirdPartyKept ==
  hooks.dir # << >> =>
    \A p \in Range(HookNames) :
      ThirdParty(hooks.first[p]) => hooks.dir[p] = hooks.first[p]

\* What the code does: uninstall-all and status leave every file without the
\* marker as it is, in whatever state of the directory they run.
C27_UninstallAndStatusKeep ==
  [][(UninstallAllHooks \/ CheckHooksStatus) =>
       \A p \in Range(HookNames) :
         ThirdParty(hooks.dir[p]) => hooks'.dir[p] = hooks.dir[p]]_vars

====
